---- MODULE Spec2Model ----
(***************************************************************************)
(* A model of nhandu's execution engine (src/src/nhandu/executor.py):      *)
(* CodeExecutor.execute_document walks the blocks of a parsed Document in  *)
(* order, runs each Python code block against one shared namespace and     *)
(* substitutes the inline markers of each Markdown block.                  *)
(*                                                                         *)
(* Python text is modelled structurally.  A code block's content is the    *)
(* sequence of its lines; a line is a record                               *)
(*    [op, var, val, indent, tail]                                         *)
(* standing for one line of source text:                                   *)
(*    op = "assign"   var = val                                            *)
(*    op = "name"     var                 (a bare name, an expression)     *)
(*    op = "lit"      a literal of value val (an expression)               *)
(*    op = "print"    print(val)          (an expression whose value is    *)
(*                                         None, writing to stdout)        *)
(*    op = "raise"    raise val("boom")   (val names the exception class)  *)
(*    op = "exit"     sys.exit()          (an expression raising           *)
(*                                         SystemExit)                     *)
(*    op = "if"       if True:            (a header opening a block)       *)
(*    op = "blank"    the empty line                                       *)
(*    op = "bump"     (var := var + 1) / 0   (an expression that rebinds   *)
(*                                         var and raises                  *)
(*                                         ZeroDivisionError)              *)
(*    op = "call"     a call acting on the process and returning None:     *)
(*                    var names it, "os.chdir" for os.chdir('tmp') or      *)
(*                    "sys.path.append" for sys.path.append('lib')         *)
(*    op = "set"      an assignment to an attribute of sys: var names it,  *)
(*                    "sys.argv=list" for sys.argv = ['p'] or              *)
(*                    "sys.argv=tuple" for sys.argv = ('p',)               *)
(* indent is the line's indentation depth (0 or 1) and tail its trailing   *)
(* comment: "" (none), "#c" (a comment), "#c:" (a comment whose last       *)
(* character is a colon).                                                  *)
(*                                                                         *)
(* A Python value is named by a string: "i1", "i2" and "i3" are the ints   *)
(* 1, 2 and 3, "sa" is the str 'a', "sb" is the three-character str a\d,   *)
(* "se" is the empty str, and "None" is None.  Text written to stdout, a block's output, its error    *)
(* and a Markdown block's content are sequences of pieces of text.         *)
(***************************************************************************)
EXTENDS Integers, Sequences, FiniteSets, TLC

VARIABLES
    parsed,     \* the blocks as the parser returned them (never written: execution is compared with it)
    doc,        \* Document.blocks: the parsed blocks (code blocks are mutated in place)
    executed,   \* ExecutedDocument.blocks
    namespace,  \* CodeExecutor.namespace: the value bound to each name
    idx,        \* position of the for loop of execute_document in doc.blocks
    pc,         \* "parse": parse is about to be called; "lines": in the loop of _parse_blocks;
                \* "parsed": parse returned; "parse_failed": parse raised;
                \* "call": execute_document is about to be called; "run": in the loop; "done": returned; "raised": an exception left execute_document;
                \* "rendered": render returned; "failed": render raised
    escaped,    \* the class of the exception that left execute_document ("" if none)
    metadata,   \* Document.metadata
    rendered,   \* what render returned, once it has
    proc,       \* the process: its working directory, sys.path and sys.argv
    call,       \* the call of execute_document: the executor's working_dir, the document's
                \* source_path, whether the figures directory can be made, and the process
                \* as it was just before the call
    saved,      \* original_dir, original_path and original_argv of the call
    src,        \* the source text given to parse, line by line
    pst,        \* the locals of _parse_blocks
    args,       \* the command line of main, and the files it names
    written,    \* the output file: None while it does not exist, or its text
    status,     \* "running"; "return 0", "return 1": what main returned;
                \* "raised": an exception left main
    notebook,   \* the notebook import_notebook reads: its title and its cells
    exported    \* the locals of _parse_py_to_cells: i and cells

vars == <<parsed, doc, executed, namespace, idx, pc, escaped, metadata, rendered,
          proc, call, saved, src, pst, args, written, status, notebook, exported>>

\* The variables only main touches.
shell == <<args, written, status>>

\* The variables only the notebook converters touch.
conv == <<notebook, exported>>

\* The variables execute_document does not touch.
pipeline == <<metadata, rendered, src, pst, shell, conv>>

\* The variables parse does not touch.
afterparse == <<executed, namespace, idx, rendered, proc, call, saved, shell, conv>>

-----------------------------------------------------------------------------
(* Bounds of the model.                                                    *)

MaxBlocks == 3

MaxLines == 3

MaxMarkers == 3

MaxEnvBlocks == 2

-----------------------------------------------------------------------------
(* Python values and their two textual forms.                              *)

Unbound == "<unbound>"

NoneVal == "None"

Names == {"x"}

\* repr(value), as print(repr(result)) writes it.
Repr(v) ==
    CASE v = "i1" -> "1"
      [] v = "i2" -> "2"
      [] v = "i3" -> "3"
      [] v = "se" -> "''"
      [] v = "sa" -> "'a'"
      [] v = "sb" -> "'a\\\\d'"
      [] OTHER -> "None"

\* str(value), as str(result) and print(value) form it.
Str(v) ==
    CASE v = "i1" -> "1"
      [] v = "i2" -> "2"
      [] v = "i3" -> "3"
      [] v = "se" -> ""
      [] v = "sa" -> "a"
      [] v = "sb" -> "a\\d"
      [] OTHER -> "None"

\* `except Exception` catches every class but the BaseException-only ones.
IsException(cls) == cls \notin {"SystemExit", "KeyboardInterrupt"}

\* Optional fields (str | None): None, or a text.
Absent == [set |-> FALSE, text |-> <<>>]

Some(t) == [set |-> TRUE, text |-> t]

-----------------------------------------------------------------------------
(* The Python interpreter, on the modelled fragment.                       *)

Line(op, var, val, indent, tail) ==
    [op |-> op, var |-> var, val |-> val, indent |-> indent, tail |-> tail]

BlankLine == Line("blank", "", "", 0, "")

\* str.strip() of one line: its indentation goes (trailing blanks are not modelled).
StripLine(l) == [l EXCEPT !.indent = 0]

\* line.rstrip().endswith(":")
EndsWithColon(l) ==
    \/ l.tail = "#c:"
    \/ l.op = "if" /\ l.tail = ""

\* compile(line, "<string>", "eval") succeeds: the line is one expression.
IsExpression(l) ==
    l.op \in {"name", "lit", "print", "exit", "call", "bump"} /\ l.indent = 0

\* The class of the error compile(source, ..., "exec") raises, "" if none.
\* Only the block structure of the fragment can be wrong: an indented first
\* line, a header without an indented body, an indented line that follows
\* neither a header nor an indented line.
CompileExec(lines) ==
    IF \E i \in 1..Len(lines) :
           \/ i = 1 /\ lines[i].indent > 0
           \/ lines[i].op = "if" /\ lines[i].indent > 0
           \/ lines[i].op = "if" /\ (i = Len(lines) \/ lines[i + 1].indent = 0)
           \/ /\ i > 1
              /\ lines[i].indent > 0
              /\ lines[i - 1].indent = 0
              /\ lines[i - 1].op # "if"
    THEN "IndentationError"
    ELSE ""

\* An interpreter state: the namespace, the text written to stdout so far,
\* the class and message of the exception raised ("" while none), the
\* value of the expression evaluated last, and the effects the code had
\* on the process (its working directory, sys.path, sys.argv), in order.
PyState(ns, out) ==
    [ns |-> ns, out |-> out, exc |-> "", msg |-> <<>>, val |-> NoneVal, fx |-> <<>>]

\* One line run in state st.
RunLine(l, st) ==
    CASE l.op = "assign" -> [st EXCEPT !.ns[l.var] = l.val, !.val = NoneVal]
      [] l.op = "name" ->
            IF st.ns[l.var] = Unbound
            THEN [st EXCEPT !.exc = "NameError",
                            !.msg = <<"name '", l.var, "' is not defined">>]
            ELSE [st EXCEPT !.val = st.ns[l.var]]
      [] l.op = "lit" -> [st EXCEPT !.val = l.val]
      [] l.op = "print" -> [st EXCEPT !.out = st.out \o <<Str(l.val), "\n">>,
                                      !.val = NoneVal]
      [] l.op = "raise" -> [st EXCEPT !.exc = l.val, !.msg = <<"boom">>]
      [] l.op = "exit" -> [st EXCEPT !.exc = "SystemExit"]
      [] l.op = "bump" ->
            IF st.ns[l.var] = Unbound
            THEN [st EXCEPT !.exc = "NameError",
                            !.msg = <<"name '", l.var, "' is not defined">>]
            ELSE IF st.ns[l.var] \notin {"i1", "i2"}
            THEN [st EXCEPT !.exc = "TypeError", !.msg = <<"cannot add">>]
            ELSE [st EXCEPT !.ns[l.var] = IF @ = "i1" THEN "i2" ELSE "i3",
                            !.exc = "ZeroDivisionError",
                            !.msg = <<"division by zero">>]
      [] l.op \in {"call", "set"} -> [st EXCEPT !.fx = Append(@, l.var), !.val = NoneVal]
      [] OTHER -> [st EXCEPT !.val = NoneVal]

RECURSIVE RunLines(_, _, _)
RunLines(lines, i, st) ==
    IF i > Len(lines) \/ st.exc # ""
    THEN st
    ELSE RunLines(lines, i + 1, RunLine(lines[i], st))

\* exec(source, namespace): nothing runs when the source does not compile.
Exec(lines, st) ==
    IF CompileExec(lines) # ""
    THEN [st EXCEPT !.exc = CompileExec(lines), !.msg = <<"invalid block structure">>]
    ELSE RunLines(lines, 1, st)

\* eval(line, namespace)
Eval(l, st) ==
    IF ~IsExpression(l)
    THEN [st EXCEPT !.exc = "SyntaxError", !.msg = <<"invalid syntax">>]
    ELSE RunLine(l, st)

-----------------------------------------------------------------------------
(* Blocks.                                                                 *)

CodeBlock(content, language, hidden, line_number) ==
    [block_type |-> "code", content |-> content, line_number |-> line_number,
     language |-> language, hidden |-> hidden,
     output |-> Absent, error |-> Absent, figures |-> <<>>]

MarkdownBlock(content, line_number) ==
    [block_type |-> "markdown", content |-> content, line_number |-> line_number,
     language |-> "", hidden |-> FALSE,
     output |-> Absent, error |-> Absent, figures |-> <<>>]

\* str.lower() leaving capitals as they are.
Lower_KeepCase(s) == s

\* str.lower() on the language tags of the model.
Lower(s) ==
    CASE s = "Python" -> "python"
      [] s = "PYTHON" -> "python"
      [] s = "R" -> "r"
      [] OTHER -> s

\* A line of white space only.
IsBlankLine(l) == l.op = "blank" /\ l.tail = ""

\* The lines of content without the blank lines it starts and ends with.
RECURSIVE TrimBlankLines(_)
TrimBlankLines(content) ==
    IF Len(content) = 0 THEN content
    ELSE IF IsBlankLine(content[1]) THEN TrimBlankLines(Tail(content))
    ELSE IF IsBlankLine(content[Len(content)])
         THEN TrimBlankLines(SubSeq(content, 1, Len(content) - 1))
    ELSE content

\* block.content.strip().split("\n"): the blank lines at both ends go, the
\* first line loses its indentation, and the empty content is the one
\* empty line.
StrippedLines(content) ==
    LET lines == TrimBlankLines(content)
    IN  IF Len(lines) = 0
        THEN <<BlankLine>>
        ELSE [i \in 1..Len(lines) |->
                IF i = 1 THEN StripLine(lines[i]) ELSE lines[i]]

\* str.rstrip() of captured output: trailing white pieces go.
IsSpace(piece) == piece \in {"\n", " ", ""}

RECURSIVE RStrip(_)
RStrip(t) ==
    IF Len(t) > 0 /\ IsSpace(t[Len(t)])
    THEN RStrip(SubSeq(t, 1, Len(t) - 1))
    ELSE t

-----------------------------------------------------------------------------
(* CodeExecutor._execute_code_block                                        *)

\* Display printing the representation of None as well.
Display_Always(st) == [st EXCEPT !.out = st.out \o <<Repr(st.val), "\n">>]

\* if result is not None: print(repr(result))
Display(st) ==
    IF st.val # NoneVal
    THEN [st EXCEPT !.out = st.out \o <<Repr(st.val), "\n">>]
    ELSE st

\* try: result = eval(line, ns); display  except Exception: exec(line, ns)
\* An exception that is no Exception leaves the try statement.
EvalOrExec(l, st) ==
    LET r == Eval(l, st)
    IN  IF r.exc = "" THEN Display(r)
        ELSE IF IsException(r.exc)
             THEN Exec(<<l>>, [r EXCEPT !.exc = "", !.msg = <<>>])
             ELSE r

\* The body of the two redirect_stdout/redirect_stderr with statements:
\* the interpreter state in which it ends.
RunBlockCode(content, ns) ==
    LET lines == StrippedLines(content)
        last_line == StripLine(lines[Len(lines)])
        in_control_structure == \E i \in 1..Len(lines) : EndsWithColon(lines[i])
        last_is_expression ==
            /\ last_line.op # "blank"
            /\ ~in_control_structure
            /\ IsExpression(last_line)
        statements == SubSeq(lines, 1, Len(lines) - 1)
    IN  IF Len(lines) = 1
        THEN EvalOrExec(lines[1], PyState(ns, <<>>))
        ELSE IF last_is_expression
             THEN LET s == Exec(statements, PyState(ns, <<>>))
                  IN  IF s.exc # "" THEN s ELSE EvalOrExec(last_line, s)
             ELSE Exec(lines, PyState(ns, <<>>))

\* f"{type(e).__name__}: {e!s}", and the line suffix when line_number is not 0.
FormatError(cls, msg, line_number) ==
    <<cls, ": ">> \o msg \o
    (IF line_number # 0
     THEN <<"\n  at line ", ToString(line_number), " in code block">>
     ELSE <<>>)

\* ExecuteCodeBlock leaving a hidden block unexecuted.
ExecuteCodeBlock_SkipHidden(block, ns) ==
    IF Lower(block.language) # "python" \/ block.hidden
    THEN [block |-> block, ns |-> ns, exc |-> "", fx |-> <<>>]
    ELSE LET r == RunBlockCode(block.content, ns)
         IN  IF r.exc = ""
             THEN [block |-> [block EXCEPT !.output =
                                  IF r.out # <<>> THEN Some(RStrip(r.out)) ELSE @],
                   ns |-> r.ns, exc |-> "", fx |-> r.fx]
             ELSE IF IsException(r.exc)
                  THEN [block |-> [block EXCEPT !.error =
                                       Some(FormatError(r.exc, r.msg, block.line_number))],
                        ns |-> r.ns, exc |-> "", fx |-> r.fx]
                  ELSE [block |-> block, ns |-> r.ns, exc |-> r.exc, fx |-> r.fx]

\* ExecuteCodeBlock without its except clause: every exception leaves it.
ExecuteCodeBlock_Uncaught(block, ns) ==
    IF Lower(block.language) # "python"
    THEN [block |-> block, ns |-> ns, exc |-> "", fx |-> <<>>]
    ELSE LET r == RunBlockCode(block.content, ns)
         IN  [block |-> [block EXCEPT !.output =
                             IF r.exc = "" /\ r.out # <<>> THEN Some(RStrip(r.out)) ELSE @],
              ns |-> r.ns, exc |-> r.exc, fx |-> r.fx]

\* ExecuteCodeBlock running the code against a copy of the namespace, so
\* that what the block binds is lost.
ExecuteCodeBlock_CopiedNamespace(block, ns) ==
    IF Lower(block.language) # "python"
    THEN [block |-> block, ns |-> ns, exc |-> "", fx |-> <<>>]
    ELSE LET r == RunBlockCode(block.content, ns)
         IN  IF r.exc = ""
             THEN [block |-> [block EXCEPT !.output =
                                  IF r.out # <<>> THEN Some(RStrip(r.out)) ELSE @],
                   ns |-> ns, exc |-> "", fx |-> r.fx]
             ELSE IF IsException(r.exc)
                  THEN [block |-> [block EXCEPT !.error =
                                       Some(FormatError(r.exc, r.msg, block.line_number))],
                        ns |-> ns, exc |-> "", fx |-> r.fx]
                  ELSE [block |-> block, ns |-> ns, exc |-> r.exc, fx |-> r.fx]

\* _execute_code_block(block, output_dir): the block as it is left, the
\* namespace as it is left, and the class of the exception that leaves the
\* method ("" if none).  matplotlib is taken not to be installed (plt is
\* None), so figures stay as they are.
ExecuteCodeBlock(block, ns) ==
    IF Lower(block.language) # "python"
    THEN [block |-> block, ns |-> ns, exc |-> "", fx |-> <<>>]
    ELSE LET r == RunBlockCode(block.content, ns)
         IN  IF r.exc = ""
             THEN [block |-> [block EXCEPT !.output =
                                  IF r.out # <<>> THEN Some(RStrip(r.out)) ELSE @],
                   ns |-> r.ns, exc |-> "", fx |-> r.fx]
             ELSE IF IsException(r.exc)
                  THEN [block |-> [block EXCEPT !.error =
                                       Some(FormatError(r.exc, r.msg, block.line_number))],
                        ns |-> r.ns, exc |-> "", fx |-> r.fx]
                  ELSE [block |-> block, ns |-> r.ns, exc |-> r.exc, fx |-> r.fx]

-----------------------------------------------------------------------------
(* Markdown text and its inline markers.  A Markdown block's content is a  *)
(* sequence of pieces: a piece of plain text s, or one marker              *)
(*    <%= code %>  (k = "value")       <% code %>  (k = "stmt")            *)
(* written with blanks around the code (sp = 1) or without (sp = 0).       *)

Text(s) == [k |-> "text", code |-> BlankLine, sp |-> 0, s |-> s]

Marker(k, code, sp) == [k |-> k, code |-> code, sp |-> sp, s |-> ""]

InlineCode(expression, is_statement, position) ==
    [expression |-> expression, is_statement |-> is_statement, position |-> position]

\* extract_inline_code: finditer of <%(?:=)?\s*(.*?)\s*%> over the text, from
\* piece i on.  group(1) is the code without the blanks around it.
RECURSIVE ExtractFrom(_, _)
ExtractFrom(text, i) ==
    IF i > Len(text) THEN <<>>
    ELSE IF text[i].k = "text" THEN ExtractFrom(text, i + 1)
    ELSE <<InlineCode(text[i].code, text[i].k # "value", i)>> \o ExtractFrom(text, i + 1)

ExtractInlineCode(text) == ExtractFrom(text, 1)

\* The pattern <%\s*{escaped_expr}\s*%> or <%=\s*{escaped_expr}\s*%> matches
\* a marker of the same kind holding the same code, however it is spaced.
PatternMatches(inline, piece) ==
    /\ piece.k = (IF inline.is_statement THEN "stmt" ELSE "value")
    /\ piece.code = inline.expression

\* re's expansion of a replacement template: a backslash escape re does not
\* know (\d) is an error, text without a backslash stands for itself.
ExpandTemplate(repl) ==
    IF repl = "a\\d"
    THEN [error |-> TRUE, text |-> ""]
    ELSE [error |-> FALSE, text |-> repl]

\* re.sub(pattern, replacement, text, count=1), the template being valid:
\* the leftmost match is replaced.
ReSubFirst(inline, replacement, text) ==
    LET hits == {i \in 1..Len(text) : PatternMatches(inline, text[i])}
    IN  IF hits = {} THEN text
        ELSE LET first == CHOOSE i \in hits : \A j \in hits : i <= j
             IN  [text EXCEPT ![first] = Text(replacement)]

\* One turn of the loop over inline_codes: [text, ns, exc].
ProcessInline(inline, text, ns) ==
    LET r == IF inline.is_statement
             THEN Exec(<<inline.expression>>, PyState(ns, <<>>))
             ELSE Eval(inline.expression, PyState(ns, <<>>))
        replacement == IF inline.is_statement \/ r.val = NoneVal THEN "" ELSE Str(r.val)
        template == ExpandTemplate(replacement)
    IN  IF r.exc # ""
        THEN [text |-> text, ns |-> r.ns, exc |-> IF IsException(r.exc) THEN "" ELSE r.exc]
        ELSE IF template.error
             THEN [text |-> text, ns |-> r.ns, exc |-> ""]
             ELSE [text |-> ReSubFirst(inline, template.text, text), ns |-> r.ns, exc |-> ""]

RECURSIVE ProcessInlines(_, _, _, _)
ProcessInlines(inline_codes, n, text, ns) ==
    IF n > Len(inline_codes)
    THEN [text |-> text, ns |-> ns, exc |-> ""]
    ELSE LET r == ProcessInline(inline_codes[n], text, ns)
         IN  IF r.exc # "" THEN r
             ELSE ProcessInlines(inline_codes, n + 1, r.text, r.ns)

\* _process_markdown_block(block): the block returned, the namespace as it
\* is left, and the class of the exception that leaves the method.  (The
\* inline code of the model has no effect on the process.)
ProcessMarkdownBlock(block, ns) ==
    LET inline_codes == ExtractInlineCode(block.content)
        r == ProcessInlines(inline_codes, 1, block.content, ns)
    IN  IF inline_codes = <<>>
        THEN [block |-> block, ns |-> ns, exc |-> "", fx |-> <<>>]
        ELSE [block |-> MarkdownBlock(r.text, block.line_number), ns |-> r.ns,
              exc |-> r.exc, fx |-> <<>>]

-----------------------------------------------------------------------------
(* Document metadata and the renderers (src/src/nhandu/renderer.py).  The  *)
(* rendered text is the sequence of its parts, joined by newlines in the   *)
(* code; a part is [kind, of, body]: what it is, the position of the block *)
(* it was made from (0 if none) and the text it carries.                   *)

\* DocumentMetadata(): the defaults.  (plot_dpi and number_format are read
\* nowhere and are left out; "" stands for None, raw is the set of keys.)
DocumentMetadata ==
    [title |-> "", output |-> "markdown", working_dir |-> "", code_theme |-> "",
     show_footer |-> TRUE, raw |-> {}]

Part(kind, of, body) == [kind |-> kind, of |-> of, body |-> body]

\* Truth value of an optional text: None and "" are false.
Truthy(opt) == opt.set /\ opt.text # <<>>

\* block.content.strip() of a code block is not empty: some line is not blank.
CodeContentTruthy(content) ==
    \E i \in 1..Len(content) : content[i].op # "blank" \/ content[i].tail # ""

\* block.content.strip() of a Markdown block is not empty.
TextContentTruthy(content) ==
    \E i \in 1..Len(content) : content[i].k # "text" \/ ~IsSpace(content[i].s)

\* The renderers' filter on code blocks.
HasContentOrArtifacts(b) ==
    \/ CodeContentTruthy(b.content)
    \/ Truthy(b.output)
    \/ Truthy(b.error)
    \/ b.figures # <<>>

HasArtifacts(b) == Truthy(b.output) \/ Truthy(b.error) \/ b.figures # <<>>

\* MarkdownRenderer._render_code_block rendering a hidden block like a visible one.
RenderCodeBlock_IgnoreHidden(b, i) ==
    <<Part("fence", i, <<b.language>>),
      Part("source", i, b.content),
      Part("fence-end", i, <<>>)>>
    \o (IF HasArtifacts(b)
        THEN <<Part("blank", i, <<>>), Part("output-header", i, <<>>), Part("fence", i, <<>>)>>
             \o (IF Truthy(b.output) THEN <<Part("output", i, b.output.text)>> ELSE <<>>)
             \o (IF Truthy(b.error) THEN <<Part("error", i, <<"Error: ">> \o b.error.text)>> ELSE <<>>)
             \o <<Part("fence-end", i, <<>>)>>
             \o [f \in 1..(2 * Len(b.figures)) |->
                   IF f % 2 = 1 THEN Part("blank", i, <<>>)
                   ELSE Part("figure", i, <<b.figures[f \div 2]>>)]
        ELSE <<>>)
    \o <<Part("blank", i, <<>>)>>

\* MarkdownRenderer._render_code_block(block): "" for a hidden block, else
\* the fenced source, the Output section if there is any artifact, and the
\* figure links.
RenderCodeBlock(b, i) ==
    IF b.hidden
    THEN <<Part("empty", i, <<>>)>>
    ELSE <<Part("fence", i, <<b.language>>),
           Part("source", i, b.content),
           Part("fence-end", i, <<>>)>>
         \o (IF HasArtifacts(b)
             THEN <<Part("blank", i, <<>>), Part("output-header", i, <<>>), Part("fence", i, <<>>)>>
                  \o (IF Truthy(b.output) THEN <<Part("output", i, b.output.text)>> ELSE <<>>)
                  \o (IF Truthy(b.error) THEN <<Part("error", i, <<"Error: ">> \o b.error.text)>> ELSE <<>>)
                  \o <<Part("fence-end", i, <<>>)>>
                  \o [f \in 1..(2 * Len(b.figures)) |->
                        IF f % 2 = 1 THEN Part("blank", i, <<>>)
                        ELSE Part("figure", i, <<b.figures[f \div 2]>>)]
             ELSE <<>>)
         \o <<Part("blank", i, <<>>)>>

\* The parts one block contributes to MarkdownRenderer.render.
RenderBlockMarkdown(b, i) ==
    IF b.block_type = "markdown"
    THEN IF TextContentTruthy(b.content) THEN <<Part("markdown", i, b.content)>> ELSE <<>>
    ELSE IF b.block_type = "code"
         THEN IF HasContentOrArtifacts(b) THEN RenderCodeBlock(b, i) ELSE <<>>
         ELSE <<>>

\* HTMLRenderer._render_code_block_html(block): the highlighted source,
\* then the error, or else the output, each escaped, then the figures.
RenderCodeBlockHtml(b, i) ==
    <<Part("div", i, <<>>), Part("code-input", i, b.content)>>
    \o (IF HasArtifacts(b)
        THEN (IF Truthy(b.error) THEN <<Part("pre-error", i, b.error.text)>>
              ELSE IF Truthy(b.output) THEN <<Part("pre-output", i, b.output.text)>>
              ELSE <<>>)
             \o [f \in 1..Len(b.figures) |-> Part("img", i, <<b.figures[f]>>)]
        ELSE <<>>)
    \o <<Part("div-end", i, <<>>)>>

\* The parts one block contributes to HTMLRenderer.render.
RenderBlockHtml(b, i) ==
    IF b.block_type = "markdown"
    THEN IF TextContentTruthy(b.content) THEN <<Part("html", i, b.content)>> ELSE <<>>
    ELSE IF b.block_type = "code" /\ ~b.hidden
         THEN IF HasContentOrArtifacts(b) THEN RenderCodeBlockHtml(b, i) ELSE <<>>
         ELSE <<>>

RECURSIVE RenderBlocks(_, _, _)
RenderBlocks(blocks, i, format) ==
    IF i > Len(blocks) THEN <<>>
    ELSE (IF format = "html" THEN RenderBlockHtml(blocks[i], i)
          ELSE RenderBlockMarkdown(blocks[i], i))
         \o RenderBlocks(blocks, i + 1, format)

\* The pygments styles: _resolve_theme raises ValueError for any other name.
ValidStyles == {"github-dark", "monokai"}

\* HTMLRenderer._resolve_theme(requested_theme)
ResolveTheme(requested_theme) ==
    IF requested_theme = "" THEN "github-dark" ELSE requested_theme

\* MarkdownRenderer.render(doc)
RenderMarkdown(blocks, meta) ==
    (IF meta.raw # {}
     THEN <<Part("---", 0, <<>>), Part("yaml", 0, <<>>), Part("---", 0, <<>>),
            Part("blank", 0, <<>>)>>
     ELSE <<>>)
    \o RenderBlocks(blocks, 1, "markdown")

\* HTMLRenderer.render(doc), the theme being valid.
RenderHtml(blocks, meta) ==
    <<Part("head", 0, <<IF meta.title # "" THEN meta.title ELSE "Nhandu Report">>)>>
    \o RenderBlocks(blocks, 1, "html")
    \o (IF meta.show_footer THEN <<Part("footer", 0, <<>>)>> ELSE <<>>)
    \o <<Part("body-end", 0, <<>>)>>

\* render(doc, format): [text, exc].  Any format but "html" is Markdown.
Render(blocks, meta, format) ==
    LET output_format == IF format # "" THEN format ELSE meta.output
    IN  IF output_format = "html"
        THEN IF ResolveTheme(meta.code_theme) \notin ValidStyles
             THEN [text |-> <<>>, exc |-> "ValueError"]
             ELSE [text |-> RenderHtml(blocks, meta), exc |-> ""]
        ELSE [text |-> RenderMarkdown(blocks, meta), exc |-> ""]

-----------------------------------------------------------------------------
(* The parser of commented Python (src/src/nhandu/parser.py).  The source  *)
(* text is the sequence of its lines, content.split("\n"); a source line   *)
(* is a record [kind, lead, md, code] naming its stripped form:            *)
(*    kind = "md"       #' text      md is the text after the sentinel and *)
(*                                   one blank, as a sequence of pieces    *)
(*    kind = "hide"     #| hide                                            *)
(*    kind = "end"      #|                                                 *)
(*    kind = "comment"  # c          any other comment                     *)
(*    kind = "code"     a line of Python, code being the line              *)
(*    kind = "blank"    the empty line                                     *)
(* lead = 1 when the line is indented (by two blanks), else 0.             *)

SrcMd(md, lead) == [kind |-> "md", lead |-> lead, md |-> md, code |-> BlankLine]

SrcHide(lead) == [kind |-> "hide", lead |-> lead, md |-> <<>>, code |-> BlankLine]

SrcEnd(lead) == [kind |-> "end", lead |-> lead, md |-> <<>>, code |-> BlankLine]

SrcComment == [kind |-> "comment", lead |-> 0, md |-> <<>>, code |-> BlankLine]

SrcCode(l) == [kind |-> "code", lead |-> l.indent, md |-> <<>>, code |-> l]

SrcBlank == [kind |-> "blank", lead |-> 0, md |-> <<>>, code |-> BlankLine]

\* hide_marker_pattern.match(line): ^#\|\s*hide\s*$ starts at the first character.
MatchesHideMarker(line) == line.kind = "hide" /\ line.lead = 0

\* end_hide_marker_pattern.match(line): ^#\|\s*$
MatchesEndHideMarker(line) == line.kind = "end" /\ line.lead = 0

\* markdown_line_pattern.match(line): ^#'\s?(.*?)$
MatchesMarkdownLine(line) == line.kind = "md" /\ line.lead = 0

\* line.strip().startswith("#'")
StartsWithSentinel(line) == line.kind = "md"

\* line.strip().startswith("#")
StartsWithHash(line) == line.kind \in {"md", "hide", "end", "comment"}

\* A source line as a line of a code block: a comment line keeps the name
\* of its kind in var.
AsCodeLine(line) ==
    CASE line.kind = "code" -> line.code
      [] line.kind = "blank" -> BlankLine
      [] OTHER -> Line("blank", line.kind, "", line.lead, "#c")

\* "\n".join(current_markdown_lines)
RECURSIVE JoinLines(_)
JoinLines(mds) ==
    IF Len(mds) = 0 THEN <<>>
    ELSE IF Len(mds) = 1 THEN mds[1]
    ELSE mds[1] \o <<Text("\n")>> \o JoinLines(Tail(mds))

\* "\n".join(current_code_lines)
CodeContent(lines) == [i \in 1..Len(lines) |-> AsCodeLine(lines[i])]

\* _is_empty_code taking a comment for code.
IsEmptyCode_BlankOnly(content) ==
    \A i \in 1..Len(content) : content[i].op = "blank" /\ content[i].tail = ""

\* _is_empty_code(code): every line is blank or a comment.
IsEmptyCode(content) == \A i \in 1..Len(content) : content[i].op = "blank"

\* The locals of _parse_blocks, line_num being the line the loop is at.
\* Two fields are no locals of the code: markdown_start is the line of the
\* first of the pending Markdown lines, and starts holds, for each block of
\* blocks, the line of the text its first line is.
ParseState ==
    [blocks |-> <<>>, current_markdown_lines |-> <<>>, current_code_lines |-> <<>>,
     in_hide_block |-> FALSE, hide_block_start_line |-> 0,
     current_code_start_line |-> 0, line_num |-> 1,
     markdown_start |-> 0, starts |-> <<>>]

\* The pending Markdown lines made a block numbered n, unless blank.
FlushMarkdown(st, n) ==
    LET markdown_content == JoinLines(st.current_markdown_lines)
    IN  IF st.current_markdown_lines = <<>> THEN st
        ELSE [st EXCEPT !.blocks = IF TextContentTruthy(markdown_content)
                                   THEN Append(@, MarkdownBlock(markdown_content, n))
                                   ELSE @,
                        !.starts = IF TextContentTruthy(markdown_content)
                                   THEN Append(@, st.markdown_start)
                                   ELSE @,
                        !.current_markdown_lines = <<>>]

\* The pending code lines made a block, unless empty.
FlushCode(st, hidden, n) ==
    LET code_content == CodeContent(st.current_code_lines)
    IN  IF st.current_code_lines = <<>> THEN st
        ELSE [st EXCEPT !.blocks = IF ~IsEmptyCode(code_content)
                                   THEN Append(@, CodeBlock(code_content, "python", hidden, n))
                                   ELSE @,
                        !.starts = IF ~IsEmptyCode(code_content)
                                   THEN Append(@, st.current_code_start_line)
                                   ELSE @,
                        !.current_code_lines = <<>>]

\* One turn of the loop of _parse_blocks, on line st.line_num.
ParseOneLine(line, st) ==
    LET n == st.line_num
        next == n + 1
    IN  IF MatchesHideMarker(line)
        THEN LET a == FlushMarkdown(st, n - Len(st.current_markdown_lines))
                 b == FlushCode(a, FALSE, st.current_code_start_line)
             IN  [b EXCEPT !.in_hide_block = TRUE, !.hide_block_start_line = n + 1,
                           !.line_num = next]
        ELSE IF MatchesEndHideMarker(line) /\ st.in_hide_block
        THEN LET b == FlushCode(st, TRUE, st.hide_block_start_line)
             IN  [b EXCEPT !.in_hide_block = FALSE, !.line_num = next]
        ELSE IF MatchesMarkdownLine(line)
        THEN LET b == FlushCode(st, st.in_hide_block, st.current_code_start_line)
             IN  [b EXCEPT !.markdown_start =
                               IF st.current_markdown_lines = <<>> THEN n ELSE @,
                           !.current_markdown_lines = Append(@, line.md),
                           !.line_num = next]
        ELSE LET a == FlushMarkdown(st, n - Len(st.current_markdown_lines))
             IN  [a EXCEPT !.current_code_start_line =
                               IF st.current_code_lines = <<>> THEN n ELSE @,
                           !.current_code_lines = Append(@, line),
                           !.line_num = next]

\* After the loop: what is pending is flushed, and blocks is returned.
ParseEnd(lines, st) ==
    LET a == FlushMarkdown(st, Len(lines) - Len(st.current_markdown_lines) + 1)
    IN  FlushCode(a, st.in_hide_block, st.current_code_start_line)

\* The frontmatter delimiter as the text of a Markdown line.
Dashes == <<Text("---")>>

\* markdown_content = line[2:].lstrip(): the text after the sentinel; for
\* an indented line, the two characters cut are its blanks and what is
\* left starts with the sentinel itself.  A text is named by a string.
MarkdownContent(line) ==
    IF line.lead > 0 THEN "#'"
    ELSE IF line.md = <<>> THEN ""
    ELSE IF Len(line.md) = 1 /\ line.md[1].k = "text" THEN line.md[1].s
    ELSE "text"

\* What a line of the YAML text is: a key/value pair, an item of a list,
\* plain text, text that cannot be parsed, or nothing (an empty line, a
\* YAML comment).
YamlKind(t) ==
    CASE t \in {"title: T", "output: html", "working_dir: work", "code_theme: nope"} -> "pair"
      [] t = "- a" -> "item"
      [] t = "k: [" -> "bad"
      [] t \in {"", "#'"} -> "void"
      [] OTHER -> "scalar"

PairOf(t) ==
    CASE t = "title: T" -> [key |-> "title", value |-> "T"]
      [] t = "output: html" -> [key |-> "output", value |-> "html"]
      [] t = "working_dir: work" -> [key |-> "working_dir", value |-> "work"]
      [] OTHER -> [key |-> "code_theme", value |-> "nope"]

\* yaml.safe_load(yaml_content): [kind, pairs], kind being "mapping",
\* "scalar", "list", "none" (an empty document) or "error" (YAMLError).
\* The first node decides what the document is, and a line that does not
\* continue it is an error; plain text goes on over the lines after it.
YamlLoad(yaml_lines) ==
    LET nodes == SelectSeq(yaml_lines, LAMBDA t : YamlKind(t) # "void")
        kinds == {YamlKind(nodes[i]) : i \in 1..Len(nodes)}
        first == YamlKind(nodes[1])
    IN  IF nodes = <<>> THEN [kind |-> "none", pairs |-> {}]
        ELSE IF "bad" \in kinds THEN [kind |-> "error", pairs |-> {}]
        ELSE IF first = "pair"
             THEN IF kinds = {"pair"}
                  THEN [kind |-> "mapping",
                        pairs |-> {PairOf(nodes[i]) : i \in 1..Len(nodes)}]
                  ELSE [kind |-> "error", pairs |-> {}]
        ELSE IF first = "item"
             THEN IF kinds = {"item"} THEN [kind |-> "list", pairs |-> {}]
                  ELSE [kind |-> "error", pairs |-> {}]
        ELSE IF "pair" \in kinds THEN [kind |-> "error", pairs |-> {}]
             ELSE [kind |-> "scalar", pairs |-> {}]

\* data.get(key, default) on a mapping
Get(pairs, key, default) ==
    IF \E q \in pairs : q.key = key
    THEN (CHOOSE q \in pairs : q.key = key).value
    ELSE default

\* DocumentMetadata.from_dict(data), data being a mapping.
FromDict(pairs) ==
    [title |-> Get(pairs, "title", ""),
     output |-> Get(pairs, "output", "markdown"),
     working_dir |-> Get(pairs, "working_dir", ""),
     code_theme |-> Get(pairs, "code_theme", ""),
     show_footer |-> TRUE,
     raw |-> {q.key : q \in pairs}]

\* The loop of _extract_metadata from line i on: [yaml_lines, frontmatter_ended].
RECURSIVE ScanFrontmatter(_, _, _, _)
ScanFrontmatter(lines, i, in_frontmatter, yaml_lines) ==
    IF i > Len(lines)
    THEN [yaml_lines |-> yaml_lines, frontmatter_ended |-> FALSE]
    ELSE IF StartsWithSentinel(lines[i])
    THEN IF MarkdownContent(lines[i]) = "---"
         THEN IF ~in_frontmatter
              THEN ScanFrontmatter(lines, i + 1, TRUE, yaml_lines)
              ELSE [yaml_lines |-> yaml_lines, frontmatter_ended |-> TRUE]
         ELSE ScanFrontmatter(lines, i + 1, in_frontmatter,
                              IF in_frontmatter
                              THEN Append(yaml_lines, MarkdownContent(lines[i]))
                              ELSE yaml_lines)
    ELSE IF in_frontmatter /\ ~StartsWithHash(lines[i])
    THEN [yaml_lines |-> yaml_lines, frontmatter_ended |-> FALSE]
    ELSE ScanFrontmatter(lines, i + 1, in_frontmatter, yaml_lines)

\* _extract_metadata(content): [meta, exc].  Only yaml.YAMLError is caught;
\* from_dict calls data.get, which a str and a list do not have.
ExtractMetadata(lines) ==
    LET f == ScanFrontmatter(lines, 1, FALSE, <<>>)
        data == YamlLoad(f.yaml_lines)
    IN  IF f.yaml_lines # <<>> /\ f.frontmatter_ended
        THEN CASE data.kind = "error" -> [meta |-> DocumentMetadata, exc |-> ""]
               [] data.kind = "none" -> [meta |-> FromDict({}), exc |-> ""]
               [] data.kind = "mapping" -> [meta |-> FromDict(data.pairs), exc |-> ""]
               [] OTHER -> [meta |-> DocumentMetadata, exc |-> "AttributeError"]
        ELSE [meta |-> DocumentMetadata, exc |-> ""]

-----------------------------------------------------------------------------
(* The process environment of a run.  sys.path and sys.argv are objects    *)
(* [kind, items]: a list or a tuple, and what it holds.  Directories and   *)
(* paths are named by strings.                                             *)

ListOf(items) == [kind |-> "list", items |-> items]

TupleOf(items) == [kind |-> "tuple", items |-> items]

\* The process a program is started in.
Process(cwd, path) ==
    [cwd |-> cwd, path |-> ListOf(path), argv |-> ListOf(<<"nhandu", "doc.py">>)]

\* One effect of block code on the process.
ApplyEffect(e, p) ==
    CASE e = "os.chdir" -> [p EXCEPT !.cwd = "tmp"]
      [] e = "sys.path.append" -> [p EXCEPT !.path.items = Append(@, "lib")]
      [] e = "sys.argv=list" -> [p EXCEPT !.argv = ListOf(<<"p">>)]
      [] e = "sys.argv=tuple" -> [p EXCEPT !.argv = TupleOf(<<"p">>)]
      [] OTHER -> p

RECURSIVE ApplyEffects(_, _, _)
ApplyEffects(fx, k, p) ==
    IF k > Len(fx) THEN p ELSE ApplyEffects(fx, k + 1, ApplyEffect(fx[k], p))

\* str(source_path.parent.absolute()) and str(source_path.absolute())
ParentOf(source_path) == IF source_path = "proj/doc.py" THEN "proj" ELSE "."

\* str(Path.cwd() / "<stdin>")
StdinIn(cwd) ==
    CASE cwd = "home" -> "home/<stdin>"
      [] cwd = "work" -> "work/<stdin>"
      [] cwd = "other" -> "other/<stdin>"
      [] OTHER -> "tmp/<stdin>"

Contains(items, x) == \E k \in 1..Len(items) : items[k] = x

\* _script_environment, up to its yield: sys.argv is bound to a new list
\* that starts with the script path, and the script directory (the working
\* directory if there is no source path) is put first in sys.path unless
\* it is in it.
EnterScriptEnvironment(p, source_path) ==
    LET script == IF source_path # "" THEN source_path ELSE StdinIn(p.cwd)
        script_dir == IF source_path # "" THEN ParentOf(source_path) ELSE p.cwd
    IN  [p EXCEPT !.argv = ListOf(<<script>> \o
                                  (IF Len(@.items) > 0 THEN Tail(@.items) ELSE <<>>)),
                  !.path.items = IF Contains(@, script_dir) THEN @ ELSE <<script_dir>> \o @]

\* The finally clause of _script_environment: sys.path[:] = original_path,
\* then sys.argv[:] = original_argv.  A slice assignment to a tuple raises
\* TypeError, and what follows it is not run.  [proc, exc]
RestoreScriptEnvironment(p, sv) ==
    IF p.path.kind # "list"
    THEN [proc |-> p, exc |-> "TypeError"]
    ELSE LET q == [p EXCEPT !.path.items = sv.path]
         IN  IF q.argv.kind # "list"
             THEN [proc |-> q, exc |-> "TypeError"]
             ELSE [proc |-> [q EXCEPT !.argv.items = sv.argv], exc |-> ""]

\* Leaving the with statement and the try statement of execute_document,
\* exc being the exception in flight ("" if none): the script environment
\* is restored, then os.chdir(original_dir).  [proc, exc]
LeaveExecuteDocument(p, sv, exc) ==
    LET r == RestoreScriptEnvironment(p, sv)
    IN  [proc |-> [r.proc EXCEPT !.cwd = sv.dir],
         exc |-> IF r.exc # "" THEN r.exc ELSE exc]

\* A call in which nothing is configured: no working directory, no source
\* path, a figures directory that can be made.
PlainCall(p) ==
    [working_dir |-> "", source_path |-> "", figures_ok |-> TRUE, before |-> p]

NoSaved == [dir |-> "", path |-> <<>>, argv |-> <<>>]

\* The command line of main: whether the input file exists, the --config
\* file ("" if none, "missing.yaml" a file that does not exist), --format.
Args(input_exists, config, format) ==
    [input_exists |-> input_exists, config |-> config, format |-> format]

\* No command line: parse, execute and render are called as a library.
NoArgs == Args(TRUE, "", "")

\* No notebook is converted.
NoNotebook == [title |-> FALSE, cells |-> <<>>]

NotExported == [i |-> 1, cells |-> <<>>]

-----------------------------------------------------------------------------
(* The documents the model executes.                                       *)

\* _create_initial_namespace: no user name is bound.  (Its entries __name__,
\* __file__, __doc__, __package__ and __builtins__ are never read or rebound
\* by the modelled fragment and are left out.)
InitialNamespace == [n \in Names |-> Unbound]

\* Lines of code blocks.
AssignX1 == Line("assign", "x", "i1", 0, "")

AssignXa == Line("assign", "x", "sa", 0, "")

AssignX1Noted == Line("assign", "x", "i1", 0, "#c:")

NameX == Line("name", "x", "", 0, "")

Print2 == Line("print", "", "i2", 0, "")

RaiseValueError == Line("raise", "", "ValueError", 0, "")

RaiseKeyboardInterrupt == Line("raise", "", "KeyboardInterrupt", 0, "")

SysExit == Line("exit", "", "", 0, "")

BumpX == Line("bump", "x", "", 0, "")

PrintEmpty == Line("print", "", "se", 0, "")

IfTrue == Line("if", "", "", 0, "")

IfTrueCommented == Line("if", "", "", 0, "#c")

IndentedAssignX2 == Line("assign", "x", "i2", 1, "")

IndentedNameX == Line("name", "x", "", 1, "")

\* Pieces of Markdown blocks.
ValueX == Marker("value", NameX, 1)

ValueXTight == Marker("value", NameX, 0)

StmtAssignX1 == Marker("stmt", AssignX1, 1)

StmtAssignX2 == Marker("stmt", Line("assign", "x", "i2", 0, ""), 1)

ValueBackslash == Marker("value", Line("lit", "", "sb", 0, ""), 1)

ValueNone == Marker("value", Line("lit", "", "None", 0, ""), 1)

StmtExit == Marker("stmt", SysExit, 1)

\* A block that is neither a CodeBlock nor a MarkdownBlock.
OtherBlock ==
    [block_type |-> "inline_code", content |-> <<>>, line_number |-> 0,
     language |-> "", hidden |-> FALSE,
     output |-> Absent, error |-> Absent, figures |-> <<>>]

\* Specification Spec: whole documents of small blocks.
DocBlocks ==
    {CodeBlock(<<l>>, "python", FALSE, 0) :
        l \in {AssignX1, AssignXa, NameX, Print2, RaiseValueError,
               RaiseKeyboardInterrupt, SysExit}}
    \cup {CodeBlock(<<Line("assign", "x", "i2", 0, "")>>, "R", FALSE, 0)}
    \cup {CodeBlock(<<l>>, "python", TRUE, 0) :
             l \in {AssignX1, NameX, Print2, RaiseValueError}}
    \cup {MarkdownBlock(<<p>>, 0) : p \in {Text("A"), ValueX, StmtAssignX2}}
    \cup {OtherBlock}

\* The parser numbers the blocks by the line they start on: here block i
\* starts on line i.
Numbered(blocks) ==
    [i \in 1..Len(blocks) |->
        IF blocks[i].block_type = "inline_code" THEN blocks[i]
        ELSE [blocks[i] EXCEPT !.line_number = i]]

SeqsUpTo(S, n) == UNION {[1..m -> S] : m \in 0..n}

Documents == {Numbered(d) : d \in SeqsUpTo(DocBlocks, MaxBlocks)}

\* Specification StepSpec: one larger block b, run after a first block that
\* leaves the namespace in one of its states.
StepLines ==
    {AssignX1, AssignX1Noted, NameX, Print2, RaiseValueError, SysExit,
     IfTrue, IfTrueCommented, IndentedAssignX2, IndentedNameX}

StepPieces ==
    {Text("A"), ValueX, ValueXTight, StmtAssignX1, StmtAssignX2,
     ValueBackslash, ValueNone, StmtExit}

StepBlocks ==
    {CodeBlock(c, "python", FALSE, n) :
        c \in SeqsUpTo(StepLines, MaxLines), n \in {0, 2}}
    \cup {CodeBlock(<<l>>, lang, FALSE, 2) :
             l \in {AssignX1, NameX, Print2, RaiseValueError, SysExit},
             lang \in {"Python", "PYTHON", "R", "py", ""}}
    \cup {CodeBlock(c, "python", FALSE, 2) :
             c \in {<<BumpX>>, <<PrintEmpty>>, <<AssignX1, PrintEmpty>>,
                    <<PrintEmpty, Print2>>, <<Print2, PrintEmpty>>}}
    \cup {MarkdownBlock(t, 2) : t \in SeqsUpTo(StepPieces, MaxMarkers)}
    \cup {OtherBlock}

Preludes ==
    {MarkdownBlock(<<Text("A")>>, 1),
     CodeBlock(<<AssignX1>>, "python", FALSE, 1),
     CodeBlock(<<AssignXa>>, "python", FALSE, 1)}

StepDocuments == {<<p, b>> : p \in Preludes, b \in StepBlocks}

\* Specification EnvSpec: short documents whose code acts on the process,
\* run by calls of every configuration.
Chdir == Line("call", "os.chdir", "", 0, "")

PathAppend == Line("call", "sys.path.append", "", 0, "")

ArgvList == Line("set", "sys.argv=list", "", 0, "")

ArgvTuple == Line("set", "sys.argv=tuple", "", 0, "")

EnvBlocks ==
    {CodeBlock(<<l>>, "python", FALSE, 0) :
        l \in {Chdir, PathAppend, ArgvList, ArgvTuple, SysExit, RaiseValueError}}
    \cup {MarkdownBlock(<<Text("A")>>, 0), OtherBlock}

EnvDocuments == {Numbered(d) : d \in SeqsUpTo(EnvBlocks, MaxEnvBlocks)}

\* Specification ParseSpec: every text of a few lines, and the texts that
\* open with a frontmatter.
MaxSrcLines == 4

MdA == SrcMd(<<Text("A")>>, 0)

BodyLines ==
    {MdA, SrcMd(<<>>, 0), SrcMd(<<Text("A")>>, 1), SrcHide(0), SrcHide(1), SrcEnd(0),
     SrcCode(AssignX1), SrcComment, SrcBlank}

YamlTexts == {"title: T", "output: html", "just text", "k: [", "- a"}

FrontSources ==
    {<<SrcMd(Dashes, 0)>> \o body \o closing \o rest :
        body \in SeqsUpTo({SrcMd(<<Text(t)>>, 0) : t \in YamlTexts}, 2),
        closing \in {<<>>, <<SrcMd(Dashes, 0)>>},
        rest \in SeqsUpTo({MdA, SrcCode(AssignX1)}, 1)}

ParseSources == (SeqsUpTo(BodyLines, MaxSrcLines) \ {<<>>}) \cup FrontSources

\* Specification MainSpec: the files main is run on, a frontmatter or none
\* and then a few lines, and its command lines.
MaxMainLines == 2

MainYamlTexts == {"title: T", "output: html", "code_theme: nope", "just text", "k: ["}

MainFronts ==
    {<<>>} \cup {<<SrcMd(Dashes, 0), SrcMd(<<Text(t)>>, 0), SrcMd(Dashes, 0)>> :
                    t \in MainYamlTexts}

MainLines ==
    {MdA} \cup {SrcCode(l) : l \in {AssignX1, NameX, Print2, RaiseValueError,
                                     RaiseKeyboardInterrupt, SysExit}}

MainSources ==
    {front \o body : front \in MainFronts,
                     body \in SeqsUpTo(MainLines, MaxMainLines) \ {<<>>}}

MainArgs ==
    {Args(e, c, f) : e \in BOOLEAN, c \in {"", "cfg.yaml", "missing.yaml"},
                     f \in {"", "md", "html"}}

EnvMetadata ==
    {DocumentMetadata, [DocumentMetadata EXCEPT !.working_dir = "work"],
     FromDict({[key |-> "title", value |-> "T"]})}

EnvProcesses ==
    {Process("home", <<"site">>), Process("home", <<"proj", "home", "site">>),
     Process("home", <<"site", "proj">>)}

EnvCalls(p) ==
    {[working_dir |-> w, source_path |-> sp, figures_ok |-> ok, before |-> p] :
        w \in {"", "other", "missing"}, sp \in {"", "proj/doc.py"}, ok \in BOOLEAN}

-----------------------------------------------------------------------------
(* CodeExecutor.execute_document: the loop over doc.blocks.                *)

Init ==
    /\ doc \in Documents
    /\ parsed = doc
    /\ executed = <<>>
    /\ namespace = InitialNamespace
    /\ idx = 1
    /\ pc = "call"
    /\ escaped = ""
    /\ metadata = DocumentMetadata
    /\ rendered = Absent
    /\ proc = Process("home", <<"site">>)
    /\ call = PlainCall(proc)
    /\ saved = NoSaved
    /\ src = <<>>
    /\ pst = ParseState
    /\ args = NoArgs
    /\ written = Absent
    /\ status = "running"
    /\ notebook = NoNotebook
    /\ exported = NotExported

StepInit ==
    /\ doc \in StepDocuments
    /\ parsed = doc
    /\ executed = <<>>
    /\ namespace = InitialNamespace
    /\ idx = 1
    /\ pc = "call"
    /\ escaped = ""
    /\ metadata = DocumentMetadata
    /\ rendered = Absent
    /\ proc = Process("home", <<"site">>)
    /\ call = PlainCall(proc)
    /\ saved = NoSaved
    /\ src = <<>>
    /\ pst = ParseState
    /\ args = NoArgs
    /\ written = Absent
    /\ status = "running"
    /\ notebook = NoNotebook
    /\ exported = NotExported

EnvInit ==
    /\ doc \in EnvDocuments
    /\ parsed = doc
    /\ executed = <<>>
    /\ namespace = InitialNamespace
    /\ idx = 1
    /\ pc = "call"
    /\ escaped = ""
    /\ metadata \in EnvMetadata
    /\ rendered = Absent
    /\ proc \in EnvProcesses
    /\ call \in EnvCalls(proc)
    /\ saved = NoSaved
    /\ src = <<>>
    /\ pst = ParseState
    /\ args = NoArgs
    /\ written = Absent
    /\ status = "running"
    /\ notebook = NoNotebook
    /\ exported = NotExported

\* The executor's working directories that exist.
IsDirectory(d) == d # "missing"

\* execute_document, from its first line to the first turn of its loop:
\* the working directory is changed if one is configured, the figures
\* directory is made, the namespace is reset and the script environment is
\* entered.  os.chdir and mkdir raise OSError subclasses, before the try
\* statement.
Enter ==
    /\ pc = "call"
    /\ LET wd == IF metadata.working_dir # "" THEN metadata.working_dir
                 ELSE call.working_dir
           p == IF wd # "" THEN [proc EXCEPT !.cwd = wd] ELSE proc
       IN  IF ~IsDirectory(wd)
           THEN /\ pc' = "raised"
                /\ escaped' = "FileNotFoundError"
                /\ saved' = [saved EXCEPT !.dir = proc.cwd]
                /\ UNCHANGED <<proc, namespace>>
           ELSE IF ~call.figures_ok
                THEN /\ pc' = "raised"
                     /\ escaped' = "FileExistsError"
                     /\ proc' = p
                     /\ saved' = [saved EXCEPT !.dir = proc.cwd]
                     /\ UNCHANGED namespace
                ELSE /\ pc' = "run"
                     /\ namespace' = InitialNamespace
                     /\ saved' = [dir |-> proc.cwd, path |-> p.path.items,
                                  argv |-> p.argv.items]
                     /\ proc' = EnterScriptEnvironment(p, call.source_path)
                     /\ UNCHANGED escaped
    /\ UNCHANGED <<parsed, doc, executed, idx, call, pipeline>>

\* Proceed leaving a block that failed out of the executed document.
Proceed_DropFailed(r) ==
    /\ namespace' = r.ns
    /\ IF r.exc = ""
       THEN /\ executed' = IF r.block.error.set THEN executed
                                                ELSE Append(executed, r.block)
            /\ idx' = idx + 1
            /\ proc' = ApplyEffects(r.fx, 1, proc)
            /\ UNCHANGED <<pc, escaped>>
       ELSE LET x == LeaveExecuteDocument(ApplyEffects(r.fx, 1, proc), saved, r.exc)
            IN  /\ pc' = "raised"
                /\ escaped' = x.exc
                /\ proc' = x.proc
                /\ UNCHANGED <<executed, idx>>
    /\ UNCHANGED <<call, saved>>

\* The loop moves on with block r.block appended, or the exception r.exc
\* leaves execute_document through its finally clauses.  What the code did
\* to the process has happened in both cases.
Proceed(r) ==
    /\ namespace' = r.ns
    /\ IF r.exc = ""
       THEN /\ executed' = Append(executed, r.block)
            /\ idx' = idx + 1
            /\ proc' = ApplyEffects(r.fx, 1, proc)
            /\ UNCHANGED <<pc, escaped>>
       ELSE LET x == LeaveExecuteDocument(ApplyEffects(r.fx, 1, proc), saved, r.exc)
            IN  /\ pc' = "raised"
                /\ escaped' = x.exc
                /\ proc' = x.proc
                /\ UNCHANGED <<executed, idx>>
    /\ UNCHANGED <<call, saved>>

\* isinstance(block, CodeBlock): the block is executed in place.
ExecuteCode ==
    /\ pc = "run"
    /\ idx <= Len(doc)
    /\ doc[idx].block_type = "code"
    /\ LET r == ExecuteCodeBlock(doc[idx], namespace)
       IN  /\ doc' = [doc EXCEPT ![idx] = r.block]
           /\ Proceed(r)
    /\ UNCHANGED <<parsed, pipeline>>

\* isinstance(block, MarkdownBlock): the processed block replaces it.
ProcessMarkdown ==
    /\ pc = "run"
    /\ idx <= Len(doc)
    /\ doc[idx].block_type = "markdown"
    /\ Proceed(ProcessMarkdownBlock(doc[idx], namespace))
    /\ UNCHANGED <<parsed, doc, pipeline>>

\* Any other block is appended as it is.
AppendOther ==
    /\ pc = "run"
    /\ idx <= Len(doc)
    /\ doc[idx].block_type \notin {"code", "markdown"}
    /\ Proceed([block |-> doc[idx], ns |-> namespace, exc |-> "", fx |-> <<>>])
    /\ UNCHANGED <<parsed, doc, pipeline>>

\* The loop is over: the with and try statements are left, and
\* execute_document returns executed_doc unless leaving them raised.
Return ==
    /\ pc = "run"
    /\ idx > Len(doc)
    /\ LET x == LeaveExecuteDocument(proc, saved, "")
       IN  /\ proc' = x.proc
           /\ pc' = IF x.exc = "" THEN "done" ELSE "raised"
           /\ escaped' = x.exc
    /\ UNCHANGED <<parsed, doc, executed, namespace, idx, call, saved, pipeline>>

\* The formats render is called with: None (the document's own), or a name.
Formats == {"", "markdown", "html"}

\* render(executed_doc, format)
RenderDocument ==
    /\ pc = "done"
    /\ \E format \in Formats :
          LET r == Render(executed, metadata, format)
          IN  IF r.exc = ""
              THEN pc' = "rendered" /\ rendered' = Some(r.text)
              ELSE pc' = "failed" /\ rendered' = rendered
    /\ UNCHANGED <<parsed, doc, executed, namespace, idx, escaped, metadata,
                   proc, call, saved, src, pst, shell, conv>>

Next ==
    \/ Enter
    \/ ExecuteCode
    \/ ProcessMarkdown
    \/ AppendOther
    \/ Return
    \/ RenderDocument

Spec == Init /\ [][Next]_vars

StepSpec == StepInit /\ [][Next]_vars

EnvSpec == EnvInit /\ [][Next]_vars

-----------------------------------------------------------------------------
(* PythonLiterateParser.parse: the metadata, then the blocks line by line. *)

ParseInit ==
    /\ src \in ParseSources
    /\ pst = ParseState
    /\ doc = <<>>
    /\ parsed = <<>>
    /\ executed = <<>>
    /\ namespace = InitialNamespace
    /\ idx = 1
    /\ pc = "parse"
    /\ escaped = ""
    /\ metadata = DocumentMetadata
    /\ rendered = Absent
    /\ proc = Process("home", <<"site">>)
    /\ call = PlainCall(proc)
    /\ saved = NoSaved
    /\ args = NoArgs
    /\ written = Absent
    /\ status = "running"
    /\ notebook = NoNotebook
    /\ exported = NotExported

\* metadata = self._extract_metadata(content)
ParseMetadata ==
    /\ pc = "parse"
    /\ LET r == ExtractMetadata(src)
       IN  IF r.exc = ""
           THEN pc' = "lines" /\ metadata' = r.meta /\ UNCHANGED escaped
           ELSE pc' = "parse_failed" /\ escaped' = r.exc /\ UNCHANGED metadata
    /\ UNCHANGED <<src, pst, doc, parsed, afterparse>>

\* One turn of the loop of _parse_blocks.
ParseLine ==
    /\ pc = "lines"
    /\ pst.line_num <= Len(src)
    /\ pst' = ParseOneLine(src[pst.line_num], pst)
    /\ UNCHANGED <<src, pc, escaped, metadata, doc, parsed, afterparse>>

\* The loop is over: the pending lines are flushed and parse returns
\* Document(blocks, metadata).
ParseReturn ==
    /\ pc = "lines"
    /\ pst.line_num > Len(src)
    /\ pst' = ParseEnd(src, pst)
    /\ doc' = pst'.blocks
    /\ parsed' = doc'
    /\ pc' = "parsed"
    /\ UNCHANGED <<src, escaped, metadata, afterparse>>

ParseNext == ParseMetadata \/ ParseLine \/ ParseReturn

ParseSpec == ParseInit /\ [][ParseNext]_vars

-----------------------------------------------------------------------------
(* main and process_document (src/src/nhandu/__main__.py), run on a        *)
(* commented Python file proj/doc.py whose text is src.                    *)

MainInit ==
    /\ src \in MainSources
    /\ args \in MainArgs
    /\ pst = ParseState
    /\ doc = <<>>
    /\ parsed = <<>>
    /\ executed = <<>>
    /\ namespace = InitialNamespace
    /\ idx = 1
    /\ pc = "main"
    /\ escaped = ""
    /\ metadata = DocumentMetadata
    /\ rendered = Absent
    /\ proc = Process("home", <<"site">>)
    /\ call = PlainCall(proc)
    /\ saved = NoSaved
    /\ written = Absent
    /\ status = "running"
    /\ notebook = NoNotebook
    /\ exported = NotExported

\* process_document, up to the call of parse_python: the input file is
\* read, or FileNotFoundError is raised when it does not exist.
ReadInput ==
    /\ pc = "main"
    /\ IF args.input_exists
       THEN pc' = "parse" /\ UNCHANGED escaped
       ELSE pc' = "main_failed" /\ escaped' = "FileNotFoundError"
    /\ UNCHANGED <<src, pst, doc, parsed, metadata, afterparse>>

\* load_config(doc, config_path), the file holding title: C.
LoadConfig(meta, config) ==
    IF config = "" THEN meta
    ELSE [meta EXCEPT !.title = "C", !.raw = @ \cup {"title"}]

\* The overrides of the command line: --format.
Override(meta, a) ==
    IF a.format # ""
    THEN [meta EXCEPT !.output = IF a.format = "md" THEN "markdown" ELSE a.format]
    ELSE meta

\* process_document from load_config to the call of execute: the
\* configuration file is loaded, or FileNotFoundError is raised when it does
\* not exist; the command line overrides the metadata; execute makes a
\* CodeExecutor with the working directory of the command line or of the
\* metadata.
Configure ==
    /\ pc = "parsed"
    /\ IF args.config = "missing.yaml"
       THEN /\ pc' = "main_failed"
            /\ escaped' = "FileNotFoundError"
            /\ UNCHANGED <<metadata, call>>
       ELSE /\ pc' = "call"
            /\ metadata' = Override(LoadConfig(metadata, args.config), args)
            /\ call' = [working_dir |-> metadata'.working_dir,
                        source_path |-> "proj/doc.py",
                        figures_ok |-> TRUE, before |-> proc]
            /\ UNCHANGED escaped
    /\ UNCHANGED <<src, pst, doc, parsed, executed, namespace, idx, rendered, proc,
                   saved, shell, conv>>

\* output_content = render(executed_doc, doc.metadata.output)
RenderOutput ==
    /\ pc = "done"
    /\ LET r == Render(executed, metadata, metadata.output)
       IN  IF r.exc = ""
           THEN pc' = "rendered" /\ rendered' = Some(r.text) /\ UNCHANGED escaped
           ELSE pc' = "main_failed" /\ escaped' = r.exc /\ UNCHANGED rendered
    /\ UNCHANGED <<parsed, doc, executed, namespace, idx, metadata,
                   proc, call, saved, src, pst, shell, conv>>

\* output_path.write_text(output_content); process_document returns and
\* main returns 0.
WriteOutput ==
    /\ pc = "rendered"
    /\ written' = rendered
    /\ status' = "return 0"
    /\ pc' = "exit"
    /\ UNCHANGED <<parsed, doc, executed, namespace, idx, escaped, metadata, rendered,
                   proc, call, saved, src, pst, args, conv>>

\* An exception leaves process_document: except Exception returns 1, and
\* what is no Exception leaves main.
MainExcept ==
    /\ pc \in {"main_failed", "parse_failed", "raised"}
    /\ status' = IF IsException(escaped) THEN "return 1" ELSE "raised"
    /\ pc' = "exit"
    /\ UNCHANGED <<parsed, doc, executed, namespace, idx, escaped, metadata, rendered,
                   proc, call, saved, src, pst, args, written, conv>>

\* The blocks parse_python returns are code and Markdown blocks only.
MainNext ==
    \/ ReadInput
    \/ ParseMetadata
    \/ ParseLine
    \/ ParseReturn
    \/ Configure
    \/ Enter
    \/ ExecuteCode
    \/ ProcessMarkdown
    \/ Return
    \/ RenderOutput
    \/ WriteOutput
    \/ MainExcept

MainSpec == MainInit /\ [][MainNext]_vars

-----------------------------------------------------------------------------
(* The notebook converters (src/src/nhandu/converters/notebook.py).  A     *)
(* cell is a record [cell_type, hidden, source]: hidden says that its tags *)
(* hold hide, and source is the sequence of its lines, lines of Markdown   *)
(* text for a markdown or raw cell and lines of Python for a code cell.    *)
(* The file import_notebook writes and export_notebook reads is src.       *)

Cell(cell_type, hidden, source) ==
    [cell_type |-> cell_type, hidden |-> hidden, source |-> source]

\* _convert_inline_code_to_fstring(line): <%= expr %> becomes {expr}.
ConvertInlineCodeToFstring(md) ==
    [k \in 1..Len(md) |-> IF md[k].k = "value" THEN Text("{expr}") ELSE md[k]]

\* _format_markdown_cell(source)
FormatMarkdownCell(source) ==
    [k \in 1..Len(source) |->
        IF TextContentTruthy(source[k])
        THEN SrcMd(ConvertInlineCodeToFstring(source[k]), 0)
        ELSE SrcMd(<<>>, 0)]

\* A line of Python as a line of the file.
CodeLineInFile(l) ==
    IF l.op # "blank" THEN SrcCode(l)
    ELSE IF l.tail # "" THEN SrcComment
    ELSE SrcBlank

\* _format_code_cell(source, is_hidden)
FormatCodeCell(source, is_hidden) ==
    (IF is_hidden THEN <<SrcHide(0)>> ELSE <<>>)
    \o [k \in 1..Len(source) |-> CodeLineInFile(source[k])]
    \o (IF is_hidden THEN <<SrcEnd(0)>> ELSE <<>>)

\* The line of three backquotes that opens and closes a literal block.
Fence == <<Text("fence")>>

\* _format_raw_cell(source)
FormatRawCell(source) ==
    <<SrcMd(Fence, 0)>> \o [k \in 1..Len(source) |-> SrcMd(source[k], 0)]
    \o <<SrcMd(Fence, 0)>>

\* The lines import_notebook writes for one cell; none for an empty cell.
ImportCell(cell) ==
    IF cell.source = <<>> THEN <<>>
    ELSE CASE cell.cell_type = "markdown" ->
                FormatMarkdownCell(cell.source) \o <<SrcMd(<<>>, 0)>>
           [] cell.cell_type = "code" ->
                FormatCodeCell(cell.source, cell.hidden) \o <<SrcBlank>>
           [] cell.cell_type = "raw" ->
                FormatRawCell(cell.source) \o <<SrcMd(<<>>, 0)>>
           [] OTHER -> <<>>

RECURSIVE ImportCells(_, _)
ImportCells(cells, k) ==
    IF k > Len(cells) THEN <<>> ELSE ImportCell(cells[k]) \o ImportCells(cells, k + 1)

\* The lines import_notebook writes: the frontmatter when the notebook has
\* metadata (a title), then the cells.
ImportNotebookLines(nb) ==
    (IF nb.title
     THEN <<SrcMd(Dashes, 0), SrcMd(<<Text("title: T")>>, 0), SrcMd(Dashes, 0),
            SrcMd(<<>>, 0)>>
     ELSE <<>>)
    \o ImportCells(nb.cells, 1)

\* The line without the sentinel characters and then the blanks it starts
\* with: the text of a Markdown line.  An indented line keeps its sentinel.
SentinelStripped(line) ==
    IF line.lead = 0 THEN line.md ELSE <<Text("#'")>> \o line.md

\* lines[i].strip().startswith("#' ---")
StartsWithDashes(line) ==
    line.kind = "md" /\ Len(line.md) > 0 /\ line.md[1] = Text("---")

\* The loop that skips a frontmatter from line i on: the line after its
\* closing delimiter.
RECURSIVE SkipFrontmatter(_, _)
SkipFrontmatter(lines, i) ==
    IF i <= Len(lines) /\ ~StartsWithDashes(lines[i])
    THEN SkipFrontmatter(lines, i + 1)
    ELSE i + 1

\* The loop collecting consecutive Markdown lines: [i, lines].
RECURSIVE CollectMarkdown(_, _, _)
CollectMarkdown(lines, i, md_lines) ==
    IF i <= Len(lines) /\ StartsWithSentinel(lines[i])
    THEN IF SentinelStripped(lines[i]) = Dashes
         THEN CollectMarkdown(lines, SkipFrontmatter(lines, i + 1), md_lines)
         ELSE CollectMarkdown(lines, i + 1, Append(md_lines, lines[i]))
    ELSE [i |-> i, lines |-> md_lines]

\* The loop collecting a hidden block up to its closing marker: [i, lines].
RECURSIVE CollectHidden(_, _, _)
CollectHidden(lines, i, code_lines) ==
    IF i <= Len(lines) /\ lines[i].kind # "end"
    THEN CollectHidden(lines, i + 1, Append(code_lines, lines[i]))
    ELSE [i |-> i + 1, lines |-> code_lines]

\* The loop collecting regular code: it stops at a Markdown line, at a
\* hide marker, and at a blank line a Markdown line follows.  [i, lines]
RECURSIVE CollectCode(_, _, _)
CollectCode(lines, i, code_lines) ==
    IF i > Len(lines) THEN [i |-> i, lines |-> code_lines]
    ELSE IF StartsWithSentinel(lines[i]) \/ lines[i].kind = "hide"
    THEN [i |-> i, lines |-> code_lines]
    ELSE IF lines[i].kind = "blank" /\ i + 1 <= Len(lines)
            /\ StartsWithSentinel(lines[i + 1])
    THEN [i |-> i, lines |-> code_lines]
    ELSE CollectCode(lines, i + 1, Append(code_lines, lines[i]))

\* "".join(lines).rstrip(): the blank lines at the end go.
RECURSIVE RStripLines(_)
RStripLines(lines) ==
    IF Len(lines) > 0 /\ (lines[Len(lines)].kind = "blank"
                          \/ (lines[Len(lines)].kind = "md"
                              /\ ~TextContentTruthy(SentinelStripped(lines[Len(lines)]))))
    THEN RStripLines(SubSeq(lines, 1, Len(lines) - 1))
    ELSE lines

\* cells with a new cell of the collected lines, unless they hold nothing.
WithCell(cells, cell_type, hidden, collected) ==
    IF RStripLines(collected) # <<>>
    THEN Append(cells, Cell(cell_type, hidden, RStripLines(collected)))
    ELSE cells

\* One turn of the while loop of _parse_py_to_cells, st being [i, cells].
ParsePyToCellsStep(lines, st) ==
    LET line == lines[st.i]
    IN  IF StartsWithSentinel(line)
        THEN LET c == CollectMarkdown(lines, st.i, <<>>)
             IN  [i |-> c.i, cells |-> WithCell(st.cells, "markdown", FALSE, c.lines)]
        ELSE IF line.kind = "hide"
        THEN LET c == CollectHidden(lines, st.i + 1, <<>>)
             IN  [i |-> c.i, cells |-> WithCell(st.cells, "code", TRUE, c.lines)]
        ELSE IF line.kind \in {"code", "comment"}
        THEN LET c == CollectCode(lines, st.i, <<>>)
             IN  [i |-> c.i, cells |-> WithCell(st.cells, "code", FALSE, c.lines)]
        ELSE [st EXCEPT !.i = @ + 1]

\* Specification NotebookSpec: the notebooks of a few cells of one line.
MaxCells == 3

NotebookCells ==
    {Cell("markdown", FALSE, <<<<Text("A")>>>>),
     Cell("code", FALSE, <<AssignX1>>),
     Cell("code", TRUE, <<NameX>>),
     Cell("raw", FALSE, <<<<Text("A")>>>>)}

Notebooks ==
    {[title |-> t, cells |-> c] : t \in BOOLEAN, c \in SeqsUpTo(NotebookCells, MaxCells)}

NotebookInit ==
    /\ notebook \in Notebooks
    /\ exported = NotExported
    /\ src = <<>>
    /\ pst = ParseState
    /\ doc = <<>>
    /\ parsed = <<>>
    /\ executed = <<>>
    /\ namespace = InitialNamespace
    /\ idx = 1
    /\ pc = "import"
    /\ escaped = ""
    /\ metadata = DocumentMetadata
    /\ rendered = Absent
    /\ proc = Process("home", <<"site">>)
    /\ call = PlainCall(proc)
    /\ saved = NoSaved
    /\ args = NoArgs
    /\ written = Absent
    /\ status = "running"

converted == <<pst, doc, parsed, executed, namespace, idx, escaped, metadata, rendered,
               proc, call, saved, shell>>

\* import_notebook(ipynb_path, output_path)
ImportNotebook ==
    /\ pc = "import"
    /\ src' = ImportNotebookLines(notebook)
    /\ pc' = "export"
    /\ UNCHANGED <<notebook, exported, converted>>

\* export_notebook(py_path, output_path): one turn of the loop of
\* _parse_py_to_cells.
ExportCell ==
    /\ pc = "export"
    /\ exported.i <= Len(src)
    /\ exported' = ParsePyToCellsStep(src, exported)
    /\ UNCHANGED <<notebook, src, pc, converted>>

\* _parse_py_to_cells returns cells, and the notebook is written.
ExportReturn ==
    /\ pc = "export"
    /\ exported.i > Len(src)
    /\ pc' = "exported"
    /\ UNCHANGED <<notebook, src, exported, converted>>

NotebookNext == ImportNotebook \/ ExportCell \/ ExportReturn

NotebookSpec == NotebookInit /\ [][NotebookNext]_vars

\* The for loop of execute_document as one function of the blocks: blocks
\* i.. handled in order from namespace ns, acc being the executed blocks so
\* far.  [executed, ns, exc], exc naming the exception that ends the loop.
RECURSIVE RunDocument(_, _, _, _)
RunDocument(blocks, i, ns, acc) ==
    IF i > Len(blocks)
    THEN [executed |-> acc, ns |-> ns, exc |-> ""]
    ELSE LET b == blocks[i]
             r == IF b.block_type = "code" THEN ExecuteCodeBlock(b, ns)
                  ELSE IF b.block_type = "markdown" THEN ProcessMarkdownBlock(b, ns)
                  ELSE [block |-> b, ns |-> ns, exc |-> ""]
         IN  IF r.exc # ""
             THEN [executed |-> acc, ns |-> r.ns, exc |-> r.exc]
             ELSE RunDocument(blocks, i + 1, r.ns, Append(acc, r.block))

-----------------------------------------------------------------------------
(* What the claims speak of.                                               *)

IsPython(b) == b.block_type = "code" /\ Lower(b.language) = "python"

\* The loop is about to handle the Python code block doc[idx].
AtPython == pc = "run" /\ idx <= Len(doc) /\ IsPython(doc[idx])

\* The loop is about to handle the Markdown block doc[idx].
AtMarkdown == pc = "run" /\ idx <= Len(doc) /\ doc[idx].block_type = "markdown"

\* The block's code run as a Python script of its own in namespace ns.
Script(b, ns) == Exec(StrippedLines(b.content), PyState(ns, <<>>))

\* The pieces of a text.
Pieces(t) == {t[i] : i \in 1..Len(t)}

\* Text t begins with text p.
StartsWith(t, p) == Len(p) <= Len(t) /\ SubSeq(t, 1, Len(p)) = p

-----------------------------------------------------------------------------
(* C1 - Failure isolation.  When the code of a Python block raises an      *)
(* ordinary exception, the block is appended with error set to a non-empty *)
(* text that names the exception class, and the loop goes on to the next   *)
(* block with the same namespace; a Python block whose code raises nothing *)
(* is appended with error absent and with what it printed in its output.   *)
C1_FailureIsolation ==
    [][AtPython =>
        LET s == Script(doc[idx], namespace)
            b == doc'[idx]
        IN  /\ (s.exc # "" /\ IsException(s.exc)) =>
                  /\ pc' = "run" /\ idx' = idx + 1
                  /\ executed' = Append(executed, b)
                  /\ namespace' = s.ns
                  /\ b.error.set /\ b.error.text # <<>>
                  /\ s.exc \in Pieces(b.error.text)
            /\ s.exc = "" =>
                  /\ pc' = "run" /\ idx' = idx + 1
                  /\ executed' = Append(executed, b)
                  /\ b.error = Absent
                  /\ RStrip(s.out) # <<>> =>
                        b.output.set /\ StartsWith(b.output.text, RStrip(s.out))
    ]_vars

\* A block failed with a NameError and a later block ran and has its output.
C1_Witness ==
    \E i, j \in 1..Len(executed) :
        /\ i < j
        /\ IsPython(executed[i]) /\ executed[i].error.set
        /\ "NameError" \in Pieces(executed[i].error.text)
        /\ IsPython(executed[j]) /\ ~executed[j].error.set /\ executed[j].output.set

(* C2 - No exception raised by the code of a block or of an inline marker  *)
(* ever leaves execute_document, whatever its class.                       *)
C2_NothingEscapes == pc # "raised"

(* C3 - Order preservation.  The executed blocks are, position by          *)
(* position, the blocks of the parsed document handled so far: same kind,  *)
(* same line, a code block being the document's own block with its source  *)
(* as parsed, a Markdown block keeping every piece of plain text in place; *)
(* when execute_document returns, every block has been handled.            *)
DerivedFrom(e, d) ==
    /\ e.block_type = d.block_type
    /\ e.line_number = d.line_number
    /\ IF d.block_type = "markdown"
       THEN /\ Len(e.content) = Len(d.content)
            /\ \A k \in 1..Len(d.content) :
                  d.content[k].k = "text" => e.content[k] = d.content[k]
       ELSE /\ e.content = d.content
            /\ e.language = d.language
            /\ e.hidden = d.hidden

C3_OrderPreserved ==
    /\ Len(executed) = idx - 1
    /\ idx <= Len(doc) + 1
    /\ \A i \in 1..Len(executed) :
          /\ DerivedFrom(executed[i], parsed[i])
          /\ parsed[i].block_type = "code" =>
                executed[i] = doc[i] /\ doc[i].content = parsed[i].content
    /\ pc = "done" => Len(executed) = Len(doc)

\* A returned document of three blocks of both kinds, one of which failed.
C3_Witness ==
    /\ pc = "done"
    /\ Len(executed) >= 3
    /\ \E i, j, k \in 1..Len(executed) :
          /\ executed[i].block_type = "markdown"
          /\ executed[j].block_type = "code" /\ executed[j].error.set
          /\ executed[k].block_type = "code" /\ ~IsPython(executed[k])

(* C4 - Namespace persistence in a single forward pass.  What a block that *)
(* reads a name records is decided by the last binding of the name at an   *)
(* earlier position, by a code block or by an inline statement: its value  *)
(* if there is one, the failure to read an unbound name if there is none.  *)
(* A binding at a later position changes nothing of it, and the namespace  *)
(* after the blocks handled holds the last binding made.                   *)

\* The value block b binds to name n ("" if it binds nothing): a Python
\* block made of one assignment, a Markdown block with an inline assignment.
RECURSIVE LastInlineBinding(_, _, _)
LastInlineBinding(text, k, n) ==
    IF k = 0 THEN ""
    ELSE IF text[k].k = "stmt" /\ text[k].code.op = "assign" /\ text[k].code.var = n
         THEN text[k].code.val
         ELSE LastInlineBinding(text, k - 1, n)

Binding(b, n) ==
    IF IsPython(b)
    THEN IF Len(b.content) = 1 /\ b.content[1].op = "assign" /\ b.content[1].var = n
         THEN b.content[1].val ELSE ""
    ELSE IF b.block_type = "markdown"
         THEN LastInlineBinding(b.content, Len(b.content), n)
         ELSE ""

\* The value bound to n by the blocks before position i.
RECURSIVE BoundBefore(_, _, _)
BoundBefore(blocks, i, n) ==
    IF i <= 1 THEN Unbound
    ELSE IF Binding(blocks[i - 1], n) # "" THEN Binding(blocks[i - 1], n)
         ELSE BoundBefore(blocks, i - 1, n)

\* Block b is one bare read of name n, as code or as an inline value marker.
ReadsAsCode(b, n) ==
    IsPython(b) /\ Len(b.content) = 1
    /\ b.content[1].op = "name" /\ b.content[1].var = n

ReadsInline(b, n) ==
    b.block_type = "markdown" /\ Len(b.content) = 1
    /\ b.content[1].k = "value"
    /\ b.content[1].code.op = "name" /\ b.content[1].code.var = n

C4_NamespacePersists ==
    /\ \A n \in Names :
          namespace[n] = BoundBefore(parsed, IF pc = "raised" THEN idx + 1 ELSE idx, n)
    /\ \A i \in 1..Len(executed) : \A n \in Names :
          LET v == BoundBefore(parsed, i, n)
              e == executed[i]
          IN  /\ ReadsAsCode(parsed[i], n) =>
                    IF v = Unbound
                    THEN e.error.set /\ ~e.output.set
                    ELSE e.output = Some(<<Repr(v)>>) /\ ~e.error.set
              /\ ReadsInline(parsed[i], n) =>
                    e.content = IF v = Unbound THEN parsed[i].content
                                               ELSE <<Text(Str(v))>>

\* A read that failed, then a binding by an inline statement, then a read
\* of the value bound.
C4_Witness ==
    \E i, j, k \in 1..Len(executed) :
        /\ i < j /\ j < k
        /\ ReadsAsCode(parsed[i], "x") /\ executed[i].error.set
        /\ parsed[j].block_type = "markdown" /\ Binding(parsed[j], "x") = "i2"
        /\ ReadsAsCode(parsed[k], "x") /\ executed[k].output = Some(<<"2">>)

(* C5 - When the code of a Python block writes to standard output and then *)
(* raises, the block is left with both fields: error holds the formatted   *)
(* exception, output the text captured before the failure.                 *)
C5_OutputKeptOnError ==
    [][AtPython =>
        LET s == Script(doc[idx], namespace)
            b == doc'[idx]
        IN  (s.exc # "" /\ IsException(s.exc) /\ RStrip(s.out) # <<>>) =>
                /\ b.error.set
                /\ b.output.set
                /\ StartsWith(b.output.text, RStrip(s.out))
    ]_vars

-----------------------------------------------------------------------------
(* Inline markers, as the claims describe them: marker by marker, from     *)
(* left to right, each at its own position.                                *)

MarkerRun(piece, ns) ==
    IF piece.k = "stmt"
    THEN Exec(<<piece.code>>, PyState(ns, <<>>))
    ELSE Eval(piece.code, PyState(ns, <<>>))

\* The text a marker that evaluated to state r is to be replaced by.
MarkerText(piece, r) ==
    Text(IF piece.k = "stmt" \/ r.val = NoneVal THEN "" ELSE Str(r.val))

\* Pieces k.. of the text with every marker that evaluates replaced by its
\* own result and every marker that raises left as it is.
RECURSIVE Substituted(_, _, _)
Substituted(text, k, ns) ==
    IF k > Len(text) THEN <<>>
    ELSE IF text[k].k = "text" THEN <<text[k]>> \o Substituted(text, k + 1, ns)
    ELSE LET r == MarkerRun(text[k], ns)
         IN  <<IF r.exc = "" THEN MarkerText(text[k], r) ELSE text[k]>>
             \o Substituted(text, k + 1, r.ns)

\* The classes of the exceptions the markers k.. raise.
RECURSIVE MarkerFailures(_, _, _)
MarkerFailures(text, k, ns) ==
    IF k > Len(text) THEN {}
    ELSE IF text[k].k = "text" THEN MarkerFailures(text, k + 1, ns)
    ELSE LET r == MarkerRun(text[k], ns)
         IN  (IF r.exc = "" THEN {} ELSE {r.exc}) \cup MarkerFailures(text, k + 1, r.ns)

HasMarker(text) == \E k \in 1..Len(text) : text[k].k # "text"

(* C6 - Inline substitution.  For a Markdown block all of whose markers    *)
(* evaluate without error, the executed text has every value marker        *)
(* replaced by the text of its value (empty for None) and every statement  *)
(* marker by the empty text: no marker remains.                            *)
C6_InlineSubstitution ==
    [][(AtMarkdown /\ MarkerFailures(doc[idx].content, 1, namespace) = {}) =>
        /\ pc' = "run"
        /\ Len(executed') = idx
        /\ executed'[idx].content = Substituted(doc[idx].content, 1, namespace)
        /\ ~HasMarker(executed'[idx].content)
    ]_vars

(* C7 - When evaluating an inline marker raises, exactly that occurrence   *)
(* keeps its original text at its position, every other marker of the     *)
(* block is replaced by its own result, and execution continues; also when *)
(* the failing marker's code occurs again in another marker of the block.  *)
(* (Stated for values whose text re.sub takes as it is and for failures    *)
(* that are ordinary exceptions: the others are C6's and C2's cases.)      *)
C7_FailedMarkerKept ==
    [][(/\ AtMarkdown
        /\ MarkerFailures(doc[idx].content, 1, namespace) # {}
        /\ \A c \in MarkerFailures(doc[idx].content, 1, namespace) : IsException(c)
        /\ \A k \in 1..Len(doc[idx].content) : doc[idx].content[k].code.val # "sb") =>
        /\ pc' = "run"
        /\ idx' = idx + 1
        /\ Len(executed') = idx
        /\ executed'[idx].content = Substituted(doc[idx].content, 1, namespace)
    ]_vars

-----------------------------------------------------------------------------
(* C8 - Single-line auto-display.  For a Python block of exactly one line  *)
(* after trimming that raises nothing: if the line is an expression whose  *)
(* value is not None, the output contains the representation of the value; *)
(* if it is a statement, or an expression whose value is None, nothing is  *)
(* displayed: the output is absent unless the code printed, and then it is *)
(* the printed text.                                                       *)
C8_SingleLineDisplay ==
    [][(AtPython /\ Len(StrippedLines(doc[idx].content)) = 1) =>
        LET l == StrippedLines(doc[idx].content)[1]
            s == Script(doc[idx], namespace)
            b == doc'[idx]
        IN  s.exc = "" =>
              /\ pc' = "run" /\ b.error = Absent
              /\ (IsExpression(l) /\ s.val # NoneVal) =>
                    b.output.set /\ Repr(s.val) \in Pieces(b.output.text)
              /\ (~IsExpression(l) \/ s.val = NoneVal) =>
                    IF s.out = <<>> THEN b.output = Absent
                    ELSE b.output = Some(RStrip(s.out))
    ]_vars

\* The one line x was displayed as 'a', the one line x = 1 displayed nothing.
C8_Witness ==
    /\ Len(executed) = 2
    /\ IsPython(executed[1]) /\ executed[1].content = <<AssignXa>>
    /\ executed[1].output = Absent /\ executed[1].error = Absent
    /\ IsPython(executed[2]) /\ executed[2].content = <<NameX>>
    /\ executed[2].output = Some(<<"'a'">>)

(* C9 - Multi-line auto-display.  For a Python block of several lines that *)
(* is a flat sequence of top-level statements, whose last line is an       *)
(* expression and which raises nothing: the lines before the last are run  *)
(* first, then the last line is evaluated in the namespace they leave; if  *)
(* its value is not None its representation ends the output, after what    *)
(* was printed.                                                            *)
Flat(lines) == \A i \in 1..Len(lines) : lines[i].indent = 0 /\ lines[i].op \notin {"if", "blank"}

C9_MultiLineDisplay ==
    [][(/\ AtPython
        /\ Len(StrippedLines(doc[idx].content)) >= 2
        /\ Flat(StrippedLines(doc[idx].content))
        /\ IsExpression(doc[idx].content[Len(doc[idx].content)])) =>
        LET s == Script(doc[idx], namespace)
            b == doc'[idx]
        IN  s.exc = "" =>
              /\ pc' = "run" /\ b.error = Absent
              /\ namespace' = s.ns
              /\ b.output = IF s.val # NoneVal
                            THEN Some(RStrip(s.out \o <<Repr(s.val), "\n">>))
                            ELSE IF s.out = <<>> THEN Absent ELSE Some(RStrip(s.out))
    ]_vars

(* C10 - A Python block of several lines that contains a control-structure *)
(* header anywhere (and is valid code that raises nothing) is run as one   *)
(* statement sequence, successfully and with no auto-display, whatever its *)
(* last line looks like.                                                   *)
HasHeader(lines) == \E i \in 1..Len(lines) : lines[i].op = "if"

C10_ControlStructureNoDisplay ==
    [][(/\ AtPython
        /\ Len(StrippedLines(doc[idx].content)) >= 2
        /\ HasHeader(StrippedLines(doc[idx].content))) =>
        LET s == Script(doc[idx], namespace)
            b == doc'[idx]
        IN  s.exc = "" =>
              /\ pc' = "run" /\ b.error = Absent
              /\ namespace' = s.ns
              /\ b.output = IF s.out = <<>> THEN Absent ELSE Some(RStrip(s.out))
    ]_vars

-----------------------------------------------------------------------------
(* C11 - The hidden flag does not influence execution.  The run of a       *)
(* document and the run of the same document with every code block made    *)
(* visible end the same way: block by block the same output, error and     *)
(* figures, the same namespace, the same exception leaving the loop if     *)
(* any; and a name bound by a hidden block has that value when a later     *)
(* block reads it.                                                         *)
Visible(blocks) ==
    [i \in 1..Len(blocks) |->
        IF blocks[i].block_type = "code" THEN [blocks[i] EXCEPT !.hidden = FALSE]
        ELSE blocks[i]]

\* Nothing between positions i and k binds name n.
NoBindingBetween(blocks, i, k, n) ==
    \A j \in (i + 1)..(k - 1) : Binding(blocks[j], n) = ""

C11_HiddenExecutesAlike ==
    /\ pc \in {"done", "raised"} =>
          LET t == RunDocument(Visible(parsed), 1, InitialNamespace, <<>>)
          IN  /\ t.ns = namespace
              /\ t.exc = escaped
              /\ Len(t.executed) = Len(executed)
              /\ \A i \in 1..Len(executed) :
                    /\ t.executed[i].output = executed[i].output
                    /\ t.executed[i].error = executed[i].error
                    /\ t.executed[i].figures = executed[i].figures
                    /\ t.executed[i].content = executed[i].content
    /\ \A i, k \in 1..Len(executed) : \A n \in Names :
          (/\ i < k
           /\ IsPython(parsed[i]) /\ parsed[i].hidden
           /\ Binding(parsed[i], n) # ""
           /\ NoBindingBetween(parsed, i, k, n)
           /\ ReadsAsCode(parsed[k], n)) =>
              /\ executed[k].output = Some(<<Repr(Binding(parsed[i], n))>>)
              /\ executed[k].error = Absent

\* A returned document in which a hidden block bound x, a visible block
\* read it, and a hidden block failed.
C11_Witness ==
    /\ pc = "done"
    /\ \E i, j, k \in 1..Len(executed) :
          /\ i < j /\ j < k
          /\ parsed[i].hidden /\ Binding(parsed[i], "x") = "i1"
          /\ ~parsed[j].hidden /\ ReadsAsCode(parsed[j], "x")
          /\ executed[j].output = Some(<<"1">>)
          /\ parsed[k].hidden /\ executed[k].error.set

-----------------------------------------------------------------------------
(* C12 - Hidden source is never rendered.  In both formats, no part of the *)
(* rendered text carries the source of a code block whose hidden flag is   *)
(* true: nothing made from a hidden block is its source, fenced or         *)
(* highlighted.                                                            *)
SourceKinds == {"source", "code-input"}

RenderedParts == {rendered.text[k] : k \in 1..Len(rendered.text)}

C12_HiddenSourceNotRendered ==
    pc = "rendered" =>
        \A i \in 1..Len(executed) :
            (executed[i].block_type = "code" /\ executed[i].hidden) =>
                ~\E part \in RenderedParts : part.of = i /\ part.kind \in SourceKinds

\* An HTML rendering of a document with a hidden block that ran and
\* printed, and a visible block whose source is rendered.
C12_Witness ==
    /\ pc = "rendered"
    /\ \E i, j \in 1..Len(executed) :
          /\ IsPython(executed[i]) /\ executed[i].hidden /\ Truthy(executed[i].output)
          /\ IsPython(executed[j]) /\ ~executed[j].hidden
          /\ \E part \in RenderedParts : part.of = j /\ part.kind = "code-input"

(* C13 - A hidden code block that carries an artifact - a non-empty        *)
(* output, error or figure list - is not skipped by the renderer: its      *)
(* output, error and figures appear in the rendered text, in both formats. *)
ArtifactKinds == {"output", "error", "figure", "pre-output", "pre-error", "img"}

C13_HiddenArtifactsRendered ==
    pc = "rendered" =>
        \A i \in 1..Len(executed) :
            (/\ executed[i].block_type = "code"
             /\ executed[i].hidden
             /\ HasArtifacts(executed[i])) =>
                \E part \in RenderedParts : part.of = i /\ part.kind \in ArtifactKinds

-----------------------------------------------------------------------------
(* C14 - A code block whose language is not 'python', compared without     *)
(* regard to case, is never executed: it is appended as it was parsed,     *)
(* with no output, no error and no figures, and the namespace is left as   *)
(* it is.  A block whose language is 'Python' or 'PYTHON' is executed as   *)
(* the same block with language 'python' is.                               *)
PythonSpellings == {"python", "Python", "PYTHON"}

AtCode == pc = "run" /\ idx <= Len(doc) /\ doc[idx].block_type = "code"

C14_OnlyPythonExecuted ==
    [][AtCode =>
        IF doc[idx].language \notin PythonSpellings
        THEN /\ pc' = "run"
             /\ namespace' = namespace
             /\ executed' = Append(executed, parsed[idx])
             /\ executed'[idx].output = Absent
             /\ executed'[idx].error = Absent
             /\ executed'[idx].figures = <<>>
        ELSE LET r == ExecuteCodeBlock([doc[idx] EXCEPT !.language = "python"], namespace)
             IN  /\ namespace' = r.ns
                 /\ doc'[idx] = [r.block EXCEPT !.language = doc[idx].language]
                 /\ IF r.exc = ""
                    THEN pc' = "run" /\ executed' = Append(executed, doc'[idx])
                    ELSE pc' = "raised" /\ escaped' = r.exc
    ]_vars

\* After x = 1, a block in R that reads x was passed through untouched.
C14_Witness ==
    /\ Len(executed) = 2
    /\ executed[2].language = "R" /\ executed[2].content = <<NameX>>
    /\ executed[2].error = Absent /\ executed[2].output = Absent
    /\ namespace["x"] = "i1"

-----------------------------------------------------------------------------
(* C15 - Scoped script environment.  Once execute_document has returned or *)
(* raised, sys.path and sys.argv are lists holding exactly what they held  *)
(* just before the call, whatever the code of the blocks did to them.      *)
Left == pc \in {"done", "raised", "rendered", "failed"}

C15_ScriptEnvironmentRestored ==
    Left =>
        /\ proc.path = call.before.path
        /\ proc.argv = call.before.argv

(* C16 - On every way out of execute_document once the working directory   *)
(* has been changed - a return, an exception from a block, a failure       *)
(* before the loop starts such as the figures directory not being made -   *)
(* the working directory of the process is the one it had before the call. *)
C16_WorkingDirectoryRestored ==
    Left => proc.cwd = call.before.cwd

-----------------------------------------------------------------------------
(* The blocks of a parsed text. *)

IsStatement(l) == l.op # "blank"

IsProse(piece) == piece.k # "text" \/ ~IsSpace(piece.s)

\* A code block that holds a statement, or a markdown block that holds text.
HasContent(b) ==
    IF b.block_type = "code"
    THEN \E i \in DOMAIN b.content : IsStatement(b.content[i])
    ELSE \E i \in DOMAIN b.content : IsProse(b.content[i])

StatementsOf(b) ==
    IF b.block_type = "code"
    THEN Cardinality({i \in DOMAIN b.content : IsStatement(b.content[i])})
    ELSE 0

ProseOf(b) ==
    IF b.block_type = "markdown"
    THEN Cardinality({i \in DOMAIN b.content : IsProse(b.content[i])})
    ELSE 0

RECURSIVE StatementsFrom(_, _)
StatementsFrom(blocks, i) ==
    IF i > Len(blocks) THEN 0 ELSE StatementsOf(blocks[i]) + StatementsFrom(blocks, i + 1)

RECURSIVE ProseFrom(_, _)
ProseFrom(blocks, i) ==
    IF i > Len(blocks) THEN 0 ELSE ProseOf(blocks[i]) + ProseFrom(blocks, i + 1)

\* A line of the text that is a statement; a markdown line that carries text.
IsStatementLine(line) == IsStatement(AsCodeLine(line))

IsProseLine(line) == MatchesMarkdownLine(line) /\ TextContentTruthy(line.md)

(* C17 - A run of lines that holds only blank lines and comments, or only
   empty markdown lines, produces no block: every block of the parsed
   document holds a statement or some text.  Nothing else is dropped: each
   statement of the text and each markdown line with text is in exactly one
   block of the result. *)
C17_OnlyEmptyRunsDropped ==
    /\ \A i \in DOMAIN pst.blocks : HasContent(pst.blocks[i])
    /\ pc = "parsed" =>
        /\ StatementsFrom(doc, 1) = Cardinality({i \in DOMAIN src : IsStatementLine(src[i])})
        /\ ProseFrom(doc, 1) = Cardinality({i \in DOMAIN src : IsProseLine(src[i])})

\* A text with a comment-only run and a blank markdown line around a
\* statement and a line of prose has been parsed into two blocks.
C17_Witness ==
    /\ pc = "parsed"
    /\ src = <<SrcComment, MdA, SrcMd(<<>>, 0), SrcCode(AssignX1)>>
    /\ Len(doc) = 2

\* The frontmatter _extract_metadata finds in the text.
Frontmatter == ScanFrontmatter(src, 1, FALSE, <<>>)

\* The texts of the lines of a closed frontmatter: its delimiter and its body.
FrontmatterTexts ==
    IF Frontmatter.frontmatter_ended
    THEN {Text("---")} \cup {Text(Frontmatter.yaml_lines[i]) : i \in DOMAIN Frontmatter.yaml_lines}
    ELSE {}

(* C18 - The lines of the frontmatter (the opening delimiter, the body and
   the closing delimiter) are consumed as metadata: they are in the content
   of no block of the parsed document. *)
C18_FrontmatterNotInBlocks ==
    pc = "parsed" =>
        \A i \in DOMAIN doc : doc[i].block_type = "markdown" =>
            \A j \in DOMAIN doc[i].content : doc[i].content[j] \notin FrontmatterTexts

(* C19 - parse never raises because of the frontmatter: when the body does
   not load as a mapping (malformed YAML, a frontmatter that is not closed,
   a bare scalar, a list) the metadata are the defaults, and the blocks are
   parsed. *)
C19_FrontmatterNeverRaises ==
    /\ pc # "parse_failed"
    /\ (pc \in {"lines", "parsed"}
        /\ (~Frontmatter.frontmatter_ended
            \/ YamlLoad(Frontmatter.yaml_lines).kind # "mapping"))
       => metadata = DocumentMetadata

\* The parts of the written file that show the error of block i.
ErrorShown(i) ==
    \E k \in DOMAIN written.text :
        written.text[k].of = i /\ written.text[k].kind \in {"error", "pre-error"}

(* C20 - main returns 0 and writes the output file whenever the input file
   (and the configuration file, if one is named) exists, even if code blocks
   raise, and the errors of the blocks shown are in the file; main returns
   1 and writes no output file when the input file or the configuration
   file does not exist. *)
C20_CliOutcome ==
    pc = "exit" =>
        IF args.input_exists /\ args.config # "missing.yaml"
        THEN /\ status = "return 0"
             /\ written.set
             /\ \A i \in DOMAIN executed :
                    executed[i].error.set /\ ~executed[i].hidden => ErrorShown(i)
        ELSE status = "return 1" /\ ~written.set

\* Path(source_path).stem
StemOf(source_path) == IF source_path = "proj/doc.py" THEN "doc" ELSE ""

\* The title the priority rule gives the document of the call.
TitleByPriority ==
    IF metadata.title # "" THEN metadata.title
    ELSE IF call.source_path # "" THEN StemOf(call.source_path)
    ELSE "Nhandu Report"

(* C21 - The title of an HTML rendering is the title of the metadata when
   it is set, otherwise the stem of the name of the source file when the
   document has a source path, otherwise 'Nhandu Report'. *)
C21_HtmlTitlePriority ==
    (pc = "rendered" /\ rendered.text # <<>> /\ rendered.text[1].kind = "head")
        => rendered.text[1].body = <<TitleByPriority>>

\* The type and the hide tag of each cell, in order.
CellTypes(cells) ==
    [k \in 1..Len(cells) |-> <<cells[k].cell_type, cells[k].hidden>>]

\* The notebook has markdown and code cells only, none of them empty.
MarkdownAndCode ==
    \A k \in DOMAIN notebook.cells :
        /\ notebook.cells[k].cell_type \in {"markdown", "code"}
        /\ notebook.cells[k].source # <<>>

(* C22 - Importing a notebook of markdown and code cells, none empty, and
   exporting the result gives a notebook with as many cells, of the same
   types in the same order, a cell tagged hide staying a code cell tagged
   hide, also when two cells of the same type are next to each other. *)
C22_NotebookRoundTrip ==
    (pc = "exported" /\ MarkdownAndCode)
        => CellTypes(exported.cells) = CellTypes(notebook.cells)

\* For each statement of the text from line i on, in order, whether it lies
\* in a hidden region: after a hide marker and before the end marker that
\* follows it.
RECURSIVE RegionFlags(_, _, _)
RegionFlags(lines, i, in_region) ==
    IF i > Len(lines) THEN <<>>
    ELSE IF MatchesHideMarker(lines[i]) THEN RegionFlags(lines, i + 1, TRUE)
    ELSE IF MatchesEndHideMarker(lines[i]) THEN RegionFlags(lines, i + 1, FALSE)
    ELSE (IF IsStatementLine(lines[i]) THEN <<in_region>> ELSE <<>>)
         \o RegionFlags(lines, i + 1, in_region)

\* For each statement of the blocks from block k on, in order, the hidden
\* flag of its block.
RECURSIVE BlockFlags(_, _)
BlockFlags(blocks, k) ==
    IF k > Len(blocks) THEN <<>>
    ELSE [j \in 1..StatementsOf(blocks[k]) |-> blocks[k].hidden]
         \o BlockFlags(blocks, k + 1)

(* C23 - Every statement between a hide marker and the end marker that
   follows it is in a code block with hidden = true, and every statement
   outside such a region is in a code block with hidden = false, whatever
   the arrangement of the markers: a second hide marker before the end
   marker, markdown lines inside the region, a region open at the end of the
   text. *)
C23_HiddenRunMembership ==
    pc = "parsed" => BlockFlags(doc, 1) = RegionFlags(src, 1, FALSE)

(* C24 - The line_number of every parsed block is the number of the line
   of the text on which the first line of the block lies, for Markdown
   blocks and for visible and hidden code blocks, so that the line numbers
   grow along the blocks. *)
C24_LineNumberIsFirstLine ==
    pc = "parsed" =>
        /\ \A k \in DOMAIN doc : doc[k].line_number = pst.starts[k]
        /\ \A k \in 1..(Len(doc) - 1) : doc[k].line_number < doc[k + 1].line_number

\* Block b is a code block that holds, as a line of code, a line of the
\* text of the given kind.
HoldsLineOfKind(b, kind) ==
    /\ b.block_type = "code"
    /\ \E j \in DOMAIN b.content : b.content[j].op = "blank" /\ b.content[j].var = kind

(* C25 - The sentinels are recognised on the stripped form of a line: a
   line whose stripped form starts with the Markdown sentinel is never a
   line of code, and a line that is a hide marker or an end marker up to the
   white space around it starts or ends a hidden run, so that no hide marker
   is a line of code and no end marker is a line of a hidden block. *)
C25_SentinelsRecognisedStripped ==
    pc = "parsed" =>
        \A k \in DOMAIN doc :
            /\ ~HoldsLineOfKind(doc[k], "md")
            /\ ~HoldsLineOfKind(doc[k], "hide")
            /\ doc[k].hidden => ~HoldsLineOfKind(doc[k], "end")

\* The positions k.. of the markers that evaluate without error when the
\* markers are run from left to right, each in the namespace the markers
\* before it left.
RECURSIVE Evaluated(_, _, _)
Evaluated(text, k, ns) ==
    IF k > Len(text) THEN {}
    ELSE IF text[k].k = "text" THEN Evaluated(text, k + 1, ns)
    ELSE LET r == MarkerRun(text[k], ns)
         IN  (IF r.exc = "" THEN {k} ELSE {}) \cup Evaluated(text, k + 1, r.ns)

\* The namespace the markers k.. leave when run from left to right.
RECURSIVE NamespaceAfterMarkers(_, _, _)
NamespaceAfterMarkers(text, k, ns) ==
    IF k > Len(text) THEN ns
    ELSE IF text[k].k = "text" THEN NamespaceAfterMarkers(text, k + 1, ns)
    ELSE NamespaceAfterMarkers(text, k + 1, MarkerRun(text[k], ns).ns)

(* C26 - The inline markers of a Markdown block are evaluated from left to
   right, each in the namespace as the markers before it left it, and every
   marker that evaluated is replaced, at its own position, by the result of
   its own evaluation, also when its code occurs in several markers of the
   block. *)
C26_MarkersLeftToRight ==
    [][(AtMarkdown /\ pc' = "run") =>
        LET text == doc[idx].content
        IN  /\ namespace' = NamespaceAfterMarkers(text, 1, namespace)
            /\ \A k \in Evaluated(text, 1, namespace) :
                   executed'[idx].content[k] = Substituted(text, 1, namespace)[k]
    ]_vars

(* C27 - In a Python block of one line the line is run as a statement only
   when it is no expression.  When it is an expression whose evaluation
   raises an exception, the code is not run a second time: the namespace is
   the one the evaluation left, and the exception is the error of the
   block. *)
C27_NoSecondRun ==
    [][(AtPython /\ Len(StrippedLines(doc[idx].content)) = 1) =>
        LET l == StrippedLines(doc[idx].content)[1]
            r == Eval(l, PyState(namespace, <<>>))
        IN  (IsExpression(l) /\ r.exc # "" /\ IsException(r.exc)) =>
                /\ namespace' = r.ns
                /\ doc'[idx].error.set
                /\ doc'[idx].error.text[1] = r.exc
    ]_vars

\* The output of a block is None, or text that is not empty and does not
\* end in whitespace.
OutputTrimmed(b) ==
    b.output.set =>
        /\ b.output.text # <<>>
        /\ ~IsSpace(b.output.text[Len(b.output.text)])

(* C28 - After execution the output of every code block is None or a
   non-empty text without trailing whitespace: a block whose code writes
   only whitespace to standard output has output None, not the empty
   text. *)
C28_OutputNoneOrTrimmed ==
    \A i \in 1..Len(doc) : doc[i].block_type = "code" => OutputTrimmed(doc[i])

(* C29 - While the blocks of a document with a source path are run, the
   first entry of sys.path is the directory of the source document,
   whatever sys.path held before the call, the case that the directory was
   in it at a later position included. *)
C29_ScriptDirFirst ==
    (pc = "run" /\ call.source_path # "") =>
        /\ Len(proc.path.items) > 0
        /\ proc.path.items[1] = ParentOf(call.source_path)

\* The call names a working directory that exists and differs from the one
\* the document's metadata names.
BothWorkingDirs ==
    /\ call.working_dir # "" /\ IsDirectory(call.working_dir)
    /\ metadata.working_dir # ""
    /\ call.working_dir # metadata.working_dir

(* C30 - The working directory passed to execute overrides the document:
   when the argument and the working_dir of the document's metadata are
   both set and differ, the blocks run in the directory of the argument. *)
C30_ArgumentOverridesMetadata ==
    [][(pc = "call" /\ BothWorkingDirs /\ pc' = "run") =>
            proc'.cwd = call.working_dir]_vars

====
